---------------------------- MODULE Spec2Model ----------------------------
(***************************************************************************)
(* A model of the VIFF runtime (src/viff/runtime.py): the program-counter  *)
(* scheduler, the Share/Deferred machinery, the pair-wise share exchange,  *)
(* and the protocols open, add, sub, mul and xor_int built on them.        *)
(*                                                                         *)
(* Every player is one single-threaded Runtime.  A handler (a top-level    *)
(* call of the program, the arrival of a message, a delayed reactor call,  *)
(* the arrival of an input) runs to completion; it is one action, computed *)
(* by operators that thread the Runtime's state, one operator per Python   *)
(* function.  Such an operator takes the state st of the Runtime and       *)
(* yields a record [st, ret]: the state afterwards and the value returned. *)
(***************************************************************************)
EXTENDS Integers, Sequences, FiniteSets, TLC

VARIABLES rt, chan, ip, env, prog, secret, dealer, rset, call

vars == <<rt, chan, ip, env, prog, secret, dealer, rset, call>>

(***************************************************************************)
(* Configuration: the players, the threshold and the field.                *)
(***************************************************************************)
\* The configuration of the tests (RuntimeTestCase.setUp): at most MaxPlayers
\* players, threshold 1.  A run has prog.n players.
MaxPlayers == 3
Threshold == 1
N == prog.n
Players == 1..N

IsPrime(p) == p > 1 /\ \A q \in 2..(p - 1) : p % q # 0

\* The field GF(Modulus): the smallest prime field in which the evaluation
\* points 1..N of the players are distinct and nonzero.
Modulus == CHOOSE p \in (MaxPlayers + 1)..(2 * MaxPlayers + 1) :
              IsPrime(p) /\ \A q \in (MaxPlayers + 1)..(p - 1) : ~IsPrime(q)
Field == 0..(Modulus - 1)

\* Bounds of the model: where the values are drawn from bounded sets, the
\* secrets are the MaxSecret + 1 and the polynomial coefficients the
\* MaxCoef + 1 largest elements of the field.
MaxSecret == 1
MaxCoef == 1
Secrets == {(Modulus - 1 - s) % Modulus : s \in 0..MaxSecret}
Coefs == {(Modulus - 1 - c) % Modulus : c \in 0..MaxCoef}

FAdd(a, b) == (a + b) % Modulus
FSub(a, b) == (a - b) % Modulus
FMul(a, b) == (a * b) % Modulus
FInv(a) == CHOOSE y \in Field : (a * y) % Modulus = 1
GF(modulus, value) == value % modulus

(***************************************************************************)
(* Shamir secret sharing (viff.shamir).                                    *)
(***************************************************************************)
RECURSIVE Power(_, _)
Power(x, k) == IF k = 0 THEN 1 ELSE FMul(x, Power(x, k - 1))

RECURSIVE PolyEval(_, _, _, _)
\* secret + coefs[1] x + ... + coefs[t] x^t, summed from term k upwards
PolyEval(secret_, coefs, x, k) ==
    IF k > Len(coefs) THEN IF k = 1 THEN secret_ % Modulus ELSE 0
    ELSE FAdd(FAdd(IF k = 1 THEN secret_ ELSE 0,
                   FMul(coefs[k], Power(x, k))),
              PolyEval(secret_, coefs, x, k + 1))

\* share(secret, threshold, num_players): the pairs (i, f(i)), i = 1..n,
\* of a polynomial f of degree threshold with f(0) = secret.
shamir_share_fn(secret_, coefs, n) ==
    [i \in 1..n |-> <<i, PolyEval(secret_, coefs, i, 1)>>]

RECURSIVE ProdOthers(_, _, _)
\* product over j # i of  x_j / (x_j - x_i)
ProdOthers(points, i, j) ==
    IF j > Len(points) THEN 1
    ELSE IF j = i THEN ProdOthers(points, i, j + 1)
    ELSE FMul(FMul(points[j][1] % Modulus,
                   FInv(FSub(points[j][1], points[i][1]))),
              ProdOthers(points, i, j + 1))

RECURSIVE LagrangeSum(_, _)
LagrangeSum(points, i) ==
    IF i > Len(points) THEN 0
    ELSE FAdd(FMul(points[i][2], ProdOthers(points, i, 1)),
              LagrangeSum(points, i + 1))

\* recombine leaving out the last of the points
shamir_recombine_short(points) == LagrangeSum(SubSeq(points, 1, Len(points) - 1), 1)

\* recombine(shares): Lagrange interpolation at 0 of all the points given.
shamir_recombine(points) == LagrangeSum(points, 1)


(***************************************************************************)
(* Values.  A Python value is a record [t, v]: a field element ("fe"), a   *)
(* pair (id, share) ("pair"), a list of values ("list"), a Deferred        *)
(* ("dref", v its index in the heap st.ds), a list of Deferreds ("dlist")  *)
(* or None.                                                                *)
(***************************************************************************)
RECURSIVE GF256Add(_, _)
\* addition in GF256: the exclusive or of the bits
GF256Add(a, b) ==
    IF a = 0 /\ b = 0 THEN 0
    ELSE ((a + b) % 2) + 2 * GF256Add(a \div 2, b \div 2)

NoneV == [t |-> "none", v |-> 0]
FailV == [t |-> "failure", v |-> 0]
FE(x) == [t |-> "fe", v |-> x]
\* an element of GF256
GF256(x) == [t |-> "gf256", v |-> x]
\* FieldElement.__add__
FieldElement_add(a, b) ==
    IF a.t = "gf256" THEN GF256(GF256Add(a.v, b.v)) ELSE FE(FAdd(a.v, b.v))
PairV(id, x) == [t |-> "pair", v |-> <<id, x>>]
ListV(xs) == [t |-> "list", v |-> xs]
DRef(d) == [t |-> "dref", v |-> d]
DList(ds) == [t |-> "dlist", v |-> ds]

R(st, ret) == [st |-> st, ret |-> ret]

\* one statement after another: x is computed, then K of it
Then(x, K(_)) == K(x)

\* A callback on a Deferred: the function k, its extra argument a, and,
\* for a callback added through Runtime.callback (w), the saved_pc of its
\* callback_wrapper.  lbl names the statement of the program the callback
\* belongs to; it is not part of the program's state.
Cb(k, a, lbl) ==
    [k |-> k, a |-> a, w |-> FALSE, pc |-> <<>>, reg |-> <<>>, lbl |-> lbl]

\* Deferred.__init__ / ShareList.__init__: the fields of a Deferred and, for
\* a ShareList or DeferredList, results and missing_shares.
EmptyDeferred == [called |-> FALSE, result |-> NoneV, cbs |-> <<>>,
                  paused |-> 0, results |-> <<>>, missing |-> 0]

\* Runtime.__init__: the state of the Runtime of player id.  out holds the
\* strings handed to the transports by the running handler, later the calls
\* given to reactor.callLater, rnd the coefficients random draws yield in
\* the running handler.  The other fields record what the claims are about:
\* pclog the counter around each decorated call, cblog the counter around
\* each callback_wrapper, sent the tag and value of each share sent (dup the
\* tags used twice for a peer), exch each call of _exchange_shares for a
\* peer with the Share it returned, rcvd the tags of the strings received,
\* kept the shares _exchange_shares was given for the player itself,
\* prss_keys the keys of the draws of prss_share_random.  shutdown tells
\* that the callback of wait_for has called Runtime.shutdown.
RuntimeInit(id) ==
    [id |-> id, pc |-> <<0>>, ds |-> <<>>, incoming |-> <<>>,
     out |-> <<>>, later |-> <<>>, rnd |-> <<>>, ndraw |-> 0,
     pclog |-> {}, cblog |-> {}, sent |-> {}, dup |-> {}, exch |-> {},
     rcvd |-> {}, err |-> {}, prss_keys |-> <<>>, kept |-> {},
     shutdown |-> FALSE]

RECURSIVE RunCallbacks(_, _), Apply(_, _, _)

\* Deferred.addCallback
addCallback(st, d, cb) ==
    LET s1 == [st EXCEPT !.ds[d].cbs = Append(@, cb)]
    IN  IF s1.ds[d].called THEN RunCallbacks(s1, d) ELSE s1

\* Deferred.callback: an already called Deferred raises AlreadyCalledError.
Deferred_callback(st, d, value) ==
    IF st.ds[d].called
    THEN [st EXCEPT !.err = @ \cup {"AlreadyCalledError"}]
    ELSE RunCallbacks([st EXCEPT !.ds[d].called = TRUE,
                                 !.ds[d].result = value], d)

\* Share.__init__
Share(st, value) ==
    LET d  == Len(st.ds) + 1
        s1 == [st EXCEPT !.ds = Append(@, EmptyDeferred)]
    IN  IF value.t # "none" THEN R(Deferred_callback(s1, d, value), d)
        ELSE R(s1, d)

\* Share.clone
clone(st, d) ==
    Then(Share(st, NoneV), LAMBDA c :
         R(addCallback(c.st, d, Cb("split_result", c.ret, <<>>)), c.ret))

\* Share.clone.split_result
split_result(st, result, cl) == R(Deferred_callback(st, cl, result), result)

RECURSIVE AddFired(_, _, _, _, _)
\* the loops of ShareList.__init__ and DeferredList.__init__: a callback
\* with the index on every share
AddFired(st, self, shares, index, k) ==
    IF index > Len(shares) THEN st
    ELSE AddFired(addCallback(st, shares[index], Cb(k, <<self, index>>, <<>>)),
                  self, shares, index + 1, k)

\* ShareList.__init__ (threshold None)
ShareList(st, shares) ==
    LET d  == Len(st.ds) + 1
        s1 == [st EXCEPT !.ds = Append(@,
                  [EmptyDeferred EXCEPT !.results = [i \in 1..Len(shares) |-> NoneV],
                                        !.missing = Len(shares)])]
    IN  R(AddFired(s1, d, shares, 1, "_callback_fired"), d)

\* ShareList._callback_fired firing with the first result
_callback_fired_first(st, result, self, index) ==
    LET s1 == [st EXCEPT !.ds[self].results[index] = result,
                         !.ds[self].missing = @ - 1]
    IN  IF ~s1.ds[self].called
        THEN R(Deferred_callback(s1, self, ListV(s1.ds[self].results)), result)
        ELSE R(s1, result)

\* ShareList._callback_fired firing when it has not fired or no share is
\* missing
_callback_fired_or(st, result, self, index) ==
    LET s1 == [st EXCEPT !.ds[self].results[index] = result,
                         !.ds[self].missing = @ - 1]
    IN  IF ~s1.ds[self].called \/ s1.ds[self].missing = 0
        THEN R(Deferred_callback(s1, self, ListV(s1.ds[self].results)), result)
        ELSE R(s1, result)

\* ShareList._callback_fired
_callback_fired(st, result, self, index) ==
    LET s1 == [st EXCEPT !.ds[self].results[index] = result,
                         !.ds[self].missing = @ - 1]
    IN  IF ~s1.ds[self].called /\ s1.ds[self].missing = 0
        THEN R(Deferred_callback(s1, self, ListV(s1.ds[self].results)), result)
        ELSE R(s1, result)

\* DeferredList._cbDeferred
_cbDeferred(st, result, self, index) ==
    LET s1 == [st EXCEPT !.ds[self].results[index] = result,
                         !.ds[self].missing = @ - 1]
    IN  IF ~s1.ds[self].called /\ s1.ds[self].missing = 0
        THEN R(Deferred_callback(s1, self, ListV(s1.ds[self].results)), result)
        ELSE R(s1, result)

\* gather_shares, with its callback filter_results
gather_shares(st, shares) ==
    Then(ShareList(st, shares), LAMBDA l :
         R(addCallback(l.st, l.ret, Cb("filter_results", 0, <<>>)), l.ret))

\* twisted.internet.defer.gatherResults: a DeferredList that fires when all
\* its Deferreds have, with the list of their results.
gatherResults(st, shares) ==
    LET d  == Len(st.ds) + 1
        s1 == [st EXCEPT !.ds = Append(@,
                  [EmptyDeferred EXCEPT !.results = [i \in 1..Len(shares) |-> NoneV],
                                        !.missing = Len(shares)])]
        s2 == IF Len(shares) = 0 THEN Deferred_callback(s1, d, ListV(<<>>))
              ELSE AddFired(s1, d, shares, 1, "_cbDeferred")
    IN  R(addCallback(s2, d, Cb("_parseDListResult", 0, <<>>)), d)

\* twisted.internet.defer.DeferredList: fires when all its Deferreds have
DeferredList(st, deferredList) ==
    LET d  == Len(st.ds) + 1
        s1 == [st EXCEPT !.ds = Append(@,
                  [EmptyDeferred EXCEPT !.results = [i \in 1..Len(deferredList) |-> NoneV],
                                        !.missing = Len(deferredList)])]
    IN  R(IF Len(deferredList) = 0 THEN Deferred_callback(s1, d, ListV(<<>>))
          ELSE AddFired(s1, d, deferredList, 1, "_cbDeferred"), d)

\* wait_for waiting for the first of its variables only
wait_for_first(st, variables) ==
    Then(DeferredList(st, SubSeq(variables, 1, 1)), LAMBDA l :
         addCallback(l.st, l.ret, Cb("shutdown_lambda", 0, <<>>)))

\* Runtime.wait_for, up to reactor.run
wait_for(st, variables) ==
    Then(DeferredList(st, variables), LAMBDA l :
         addCallback(l.st, l.ret, Cb("shutdown_lambda", 0, <<>>)))

\* Deferred._continue: the Deferred a callback returned has fired
_continue(st, result, target) ==
    LET s1 == [st EXCEPT !.ds[target].result = result,
                         !.ds[target].paused = @ - 1]
    IN  R(RunCallbacks(s1, target), NoneV)

(***************************************************************************)
(* The program counter.                                                    *)
(***************************************************************************)
\* inc_pc_wrapper pushing the frame without incrementing the counter
inc_pc_wrapper_no_increment(st) == [st EXCEPT !.pc = Append(@, 0)]

\* increment_pc.inc_pc_wrapper, up to the call of the method
inc_pc_wrapper(st) ==
    [st EXCEPT !.pc = Append([@ EXCEPT ![Len(@)] = @ + 1], 0)]

\* inc_pc_wrapper popping the frame after the call instead of in a finally
\* clause: a call that raised leaves its frame
inc_pc_wrapper_pop_on_return(st) ==
    IF "AssertionError" \in st.err THEN st
    ELSE [st EXCEPT !.pc = SubSeq(@, 1, Len(@) - 1)]

\* increment_pc.inc_pc_wrapper, the finally clause
inc_pc_finally(st) == [st EXCEPT !.pc = SubSeq(@, 1, Len(@) - 1)]

\* What one decorated call did to the counter: the counter before the call,
\* at the start of the body, at its end, and after the call.
LogPc(st, op, before, entry, last) ==
    [st EXCEPT !.pclog = @ \cup {[op |-> op, before |-> before, entry |-> entry,
                                  last |-> last, after |-> st.pc]}]

\* Runtime.callback: saved_pc is a copy of the counter.  reg records the
\* counter at registration for the log.
Runtime_callback(st, d, cb) ==
    addCallback(st, d, [cb EXCEPT !.w = TRUE, !.pc = st.pc, !.reg = st.pc])

\* callback_wrapper running func under the current counter
callback_wrapper_current_pc(st, saved_pc) == st

\* Runtime.callback.callback_wrapper, up to the call of func
callback_wrapper(st, saved_pc) == [st EXCEPT !.pc = saved_pc]

\* callback_wrapper without its finally clause
callback_wrapper_no_restore(st, current_pc) == st

\* Runtime.callback.callback_wrapper, the finally clause: current_pc is the
\* counter that was current when the wrapper started
callback_wrapper_finally(st, current_pc) == [st EXCEPT !.pc = current_pc]

\* What one callback_wrapper did to the counter: the counter at registration,
\* the counter func started with, the counter before and after the wrapper.
LogCb(st, cb, ran, before) ==
    [st EXCEPT !.cblog = @ \cup {[k |-> cb.k, reg |-> cb.reg, ran |-> ran,
                                  before |-> before, after |-> st.pc]}]

(***************************************************************************)
(* The exchange of shares.                                                 *)
(***************************************************************************)
\* ShareExchanger.sendShare: the string sent, (program_counter, modulus, value)
sendShare(program_counter, share) ==
    [pc |-> program_counter, modulus |-> Modulus, value |-> share]

\* _exchange_shares always waiting on a new Share
_exchange_shares_fresh(st, id, share, lbl) ==
    IF id = st.id
    THEN Share([st EXCEPT !.kept = @ \cup {[lbl |-> lbl, pc |-> st.pc, value |-> share]}],
               FE(share))
    ELSE Then(Share(st, NoneV), LAMBDA n :
         LET pc  == st.pc
             key == <<pc, id>>
             d   == n.ret
         IN  R([n.st EXCEPT
                  !.incoming = [k \in DOMAIN @ \cup {key} |-> IF k = key THEN d ELSE @[k]],
                  !.out = Append(@, [to |-> id, msg |-> sendShare(pc, share)]),
                  !.sent = @ \cup {[lbl |-> lbl, to |-> id, pc |-> pc,
                                    value |-> share]},
                  !.exch = @ \cup {[pc |-> pc, peer |-> id, d |-> d,
                                    arrived |-> key \in st.rcvd,
                                    called |-> n.st.ds[d].called]}], d))

\* Runtime._exchange_shares.  The channel to the peer is up, so the callback
\* on self.protocols[id] sends at once.
_exchange_shares(st, id, share, lbl) ==
    IF id = st.id
    THEN Share([st EXCEPT !.kept = @ \cup {[lbl |-> lbl, pc |-> st.pc, value |-> share]}],
               FE(share))
    ELSE Then(IF <<st.pc, id>> \in DOMAIN st.incoming THEN st
              ELSE Then(Share(st, NoneV), LAMBDA n :
                        [n.st EXCEPT !.incoming = @ @@ (<<st.pc, id>> :> n.ret)]),
         LAMBDA s1 :
         LET pc  == st.pc
             key == <<pc, id>>
             d   == s1.incoming[key]
         IN  R([s1 EXCEPT
                  !.out = Append(@, [to |-> id, msg |-> sendShare(pc, share)]),
                  !.sent = @ \cup {[lbl |-> lbl, to |-> id, pc |-> pc,
                                    value |-> share]},
                  !.dup = @ \cup {t \in {<<pc, id>>} :
                                   \E m \in s1.sent : m.to = id /\ m.pc = pc},
                  !.exch = @ \cup {[pc |-> pc, peer |-> id, d |-> d,
                                    arrived |-> key \in st.rcvd,
                                    called |-> s1.ds[d].called]}], d))

\* stringReceived matching a string with any Share awaited from the peer
stringReceived_any_tag(st, id, string) ==
    LET share == GF(string.modulus, string.value)
        key   == <<string.pc, id>>
        keys  == {k \in DOMAIN st.incoming : k[2] = id /\ ~st.ds[st.incoming[k]].called}
        s0    == [st EXCEPT !.rcvd = @ \cup {key}]
    IN  IF keys # {}
        THEN LET k0 == CHOOSE k \in keys : \A k2 \in keys : Len(k[1]) <= Len(k2[1])
                                             /\ (Len(k[1]) = Len(k2[1]) => k[1][1] <= k2[1][1])
             IN [s0 EXCEPT
                   !.incoming = [k \in DOMAIN @ \ {k0} |-> @[k]],
                   !.later = Append(@, [d |-> st.incoming[k0], value |-> share])]
        ELSE Then(Share(s0, FE(share)), LAMBDA n :
                  [n.st EXCEPT !.incoming = @ @@ (key :> n.ret)])

\* ShareExchanger.stringReceived, in the protocol of peer id
stringReceived(st, id, string) ==
    LET share == GF(string.modulus, string.value)
        key   == <<string.pc, id>>
        s0    == [st EXCEPT !.rcvd = @ \cup {key}]
    IN  IF key \in DOMAIN st.incoming
        THEN [s0 EXCEPT
                !.incoming = [k \in DOMAIN @ \ {key} |-> @[k]],
                !.later = Append(@, [d |-> st.incoming[key], value |-> share])]
        ELSE Then(Share(s0, FE(share)), LAMBDA n :
                  [n.st EXCEPT !.incoming = @ @@ (key :> n.ret)])

(***************************************************************************)
(* The protocols.                                                          *)
(***************************************************************************)
\* _recombine without its assertion: the slice takes what shares there are
_recombine_unchecked(st, shares, threshold, lbl) ==
    Then(Then(gatherResults(inc_pc_wrapper(st),
                            SubSeq(shares, 1, IF Len(shares) > threshold
                                              THEN threshold + 1 ELSE Len(shares))),
              LAMBDA g : R(addCallback(g.st, g.ret, Cb("recombine", 0, lbl)),
                           DRef(g.ret))),
         LAMBDA r :
         R(LogPc(inc_pc_finally(r.st), "_recombine", st.pc, inc_pc_wrapper(st).pc, r.st.pc),
           r.ret))

\* Runtime._recombine
_recombine(st, shares, threshold, lbl) ==
    Then(IF ~(Len(shares) > threshold)
         THEN R([inc_pc_wrapper(st) EXCEPT !.err = @ \cup {"AssertionError"}], FailV)
         ELSE Then(gatherResults(inc_pc_wrapper(st), SubSeq(shares, 1, threshold + 1)),
                   LAMBDA g : R(addCallback(g.st, g.ret, Cb("recombine", 0, lbl)),
                                DRef(g.ret))),
         LAMBDA r :
         R(LogPc(inc_pc_finally(r.st), "_recombine", st.pc, inc_pc_wrapper(st).pc, r.st.pc),
           r.ret))

RECURSIVE _shamir_share_loop(_, _, _, _, _)
\* the loop of Runtime._shamir_share over the (id, share) pairs
_shamir_share_loop(st, shares, i, result, lbl) ==
    IF i > Len(shares) THEN R(st, result)
    ELSE Then(_exchange_shares(st, shares[i][1], shares[i][2], lbl), LAMBDA e :
         _shamir_share_loop(addCallback(e.st, e.ret, Cb("shamir_pair", shares[i][1], lbl)),
                            shares, i + 1, Append(result, e.ret), lbl))

\* Runtime._shamir_share
_shamir_share(st, number, lbl) ==
    Then(_shamir_share_loop([inc_pc_wrapper(st) EXCEPT !.ndraw = @ + 1],
                            shamir_share_fn(number.v, st.rnd, N), 1, <<>>, lbl),
         LAMBDA r :
         R(LogPc(inc_pc_finally(r.st), "_shamir_share", st.pc, inc_pc_wrapper(st).pc,
                 r.st.pc),
           DList(r.ret)))

RECURSIVE broadcast_loop(_, _, _, _, _)
\* the loop of Runtime.open.broadcast over the players
broadcast_loop(st, share, id, deferreds, lbl) ==
    IF id > N THEN R(st, deferreds)
    ELSE Then(_exchange_shares(st, id, share, lbl), LAMBDA e :
         broadcast_loop(Runtime_callback(e.st, e.ret, Cb("open_pair", id, lbl)),
                        share, id + 1, Append(deferreds, e.ret), lbl))

\* broadcast recombining one share too few
broadcast_one_short(st, share, threshold, lbl) ==
    IF share.t # "fe" THEN R([st EXCEPT !.err = @ \cup {"AssertionError"}], FailV)
    ELSE Then(broadcast_loop(st, share.v, 1, <<>>, lbl), LAMBDA l :
              _recombine(l.st, l.ret, threshold - 1, lbl))

\* Runtime.open.broadcast
broadcast(st, share, threshold, lbl) ==
    IF share.t # "fe" THEN R([st EXCEPT !.err = @ \cup {"AssertionError"}], FailV)
    ELSE Then(broadcast_loop(st, share.v, 1, <<>>, lbl), LAMBDA l :
              _recombine(l.st, l.ret, threshold, lbl))

\* Runtime.open
open(st, sharing, threshold, lbl) ==
    Then(IF sharing.t # "dref"
         THEN R([inc_pc_wrapper(st) EXCEPT !.err = @ \cup {"AssertionError"}], FailV)
         ELSE Then(clone(inc_pc_wrapper(st), sharing.v), LAMBDA c :
                   R(Runtime_callback(c.st, c.ret, Cb("broadcast", threshold, lbl)),
                     DRef(c.ret))),
         LAMBDA r :
         R(LogPc(inc_pc_finally(r.st), "open", st.pc, inc_pc_wrapper(st).pc, r.st.pc),
           r.ret))

\* "if not isinstance(share_a, Share): share_a = Share(self, share_a)"
coerce(st, share_a) ==
    IF share_a.t = "dref" THEN R(st, share_a.v) ELSE Share(st, share_a)

\* add as a method that increment_pc decorates
add_increment_pc(st, share_a, share_b) ==
    Then(coerce(inc_pc_wrapper(st), share_a), LAMBDA a :
    Then(coerce(a.st, share_b), LAMBDA b :
    Then(gather_shares(b.st, <<a.ret, b.ret>>), LAMBDA g :
         R(inc_pc_finally(addCallback(g.st, g.ret, Cb("add_lambda", 0, <<>>))),
           DRef(g.ret)))))

\* Runtime.add
add(st, share_a, share_b) ==
    Then(coerce(st, share_a), LAMBDA a :
    Then(coerce(a.st, share_b), LAMBDA b :
    Then(gather_shares(b.st, <<a.ret, b.ret>>), LAMBDA g :
         R(addCallback(g.st, g.ret, Cb("add_lambda", 0, <<>>)), DRef(g.ret)))))

\* Runtime.sub
sub(st, share_a, share_b) ==
    Then(coerce(st, share_a), LAMBDA a :
    Then(coerce(a.st, share_b), LAMBDA b :
    Then(gather_shares(b.st, <<a.ret, b.ret>>), LAMBDA g :
         R(addCallback(g.st, g.ret, Cb("sub_lambda", 0, <<>>)), DRef(g.ret)))))

\* mul recombining the re-shared products with the threshold of the inputs
mul_threshold_t(st, share_a, share_b, lbl) ==
    Then(coerce(inc_pc_wrapper(st), share_a), LAMBDA a :
    Then(coerce(a.st, share_b), LAMBDA b :
    Then(gather_shares(b.st, <<a.ret, b.ret>>), LAMBDA g :
    Then(Runtime_callback(
           Runtime_callback(
             addCallback(g.st, g.ret, Cb("mul_lambda", 0, lbl)),
             g.ret, Cb("_shamir_share", 0, lbl)),
           g.ret, Cb("_recombine", Threshold, lbl)),
         LAMBDA s3 :
         R(LogPc(inc_pc_finally(s3), "mul", st.pc, inc_pc_wrapper(st).pc, s3.pc),
           DRef(g.ret))))))

\* Runtime.mul
mul(st, share_a, share_b, lbl) ==
    Then(coerce(inc_pc_wrapper(st), share_a), LAMBDA a :
    Then(coerce(a.st, share_b), LAMBDA b :
    Then(gather_shares(b.st, <<a.ret, b.ret>>), LAMBDA g :
    Then(Runtime_callback(
           Runtime_callback(
             addCallback(g.st, g.ret, Cb("mul_lambda", 0, lbl)),
             g.ret, Cb("_shamir_share", 0, lbl)),
           g.ret, Cb("_recombine", 2 * Threshold, lbl)),
         LAMBDA s3 :
         R(LogPc(inc_pc_finally(s3), "mul", st.pc, inc_pc_wrapper(st).pc, s3.pc),
           DRef(g.ret))))))

\* xor_int as xor_bit is: add
xor_int_as_add(st, share_a, share_b, lbl) == add(st, share_a, share_b)

\* Runtime.xor_int
xor_int(st, share_a, share_b, lbl) ==
    Then(coerce(inc_pc_wrapper(st), share_a), LAMBDA a :
    Then(coerce(a.st, share_b), LAMBDA b :
    Then(mul(b.st, DRef(a.ret), DRef(b.ret), lbl), LAMBDA c :
    Then(gather_shares(c.st, <<a.ret, b.ret, c.ret.v>>), LAMBDA g :
    Then(Runtime_callback(g.st, g.ret, Cb("xor_lambda", 0, lbl)), LAMBDA s1 :
         R(LogPc(inc_pc_finally(s1), "xor_int", st.pc, inc_pc_wrapper(st).pc, s1.pc),
           DRef(g.ret)))))))

(***************************************************************************)
(* Pseudo-random secret sharing.  There is one PRF key per dealer and per  *)
(* subset of n - threshold players; a player holds the keys of the subsets *)
(* it is in, and all the keys it is the dealer of.  call.keys is the key   *)
(* material fixed at setup.                                                *)
(***************************************************************************)
Subsets == {S \in SUBSET Players : Cardinality(S) = N - Threshold}

\* the key of dealer d for the subset S
PrfKey(d, S) == <<d, call.keys[S]>>

\* a PRF evaluated on the key of a protocol position: a function of both
PRF(k, key) == (k[1] * k[2] + key[Len(key)] + Len(key)) % Modulus

\* self.players[id].dealer_prfs(modulus): for each dealer, the keys that
\* player id holds
dealer_prfs(id) ==
    [d \in Players |->
       [S \in {T \in Subsets : d = id \/ id \in T} |-> PrfKey(d, S)]]

RECURSIVE prss_poly(_, _, _)
\* the polynomial of degree threshold that is 1 at 0 and 0 at the players
\* outside S, at point j: the product over the players x, x + 1, ..
prss_poly(S, j, x) ==
    IF x > N THEN 1
    ELSE FMul(IF x \in S THEN 1 ELSE FMul(FSub(x, j), FInv(x)), prss_poly(S, j, x + 1))

RECURSIVE prss_sum(_, _, _, _)
\* the sum of prss over the subsets in todo
prss_sum(j, prfs, key, todo) ==
    IF todo = {} THEN 0
    ELSE LET S == CHOOSE T \in todo : TRUE
         IN  FAdd(FMul(prss_poly(S, j, 1), PRF(prfs[S], key)),
                  prss_sum(j, prfs, key, todo \ {S}))

\* viff.prss.prss(n, j, field, prfs, key): the share of player j
prss(j, prfs, key) == prss_sum(j, prfs, key, DOMAIN prfs)

\* the value shared added and not subtracted
correction_added(element, shared) == FAdd(element, shared)

\* "correction = element - shared"
correction(element, shared) == FSub(element, shared)

RECURSIVE prss_share_loop(_, _, _, _, _, _)
\* the loop of Runtime.prss_share over the players
prss_share_loop(st, corr, key, player, result, lbl) ==
    IF player > N THEN R(st, result)
    ELSE Then(_exchange_shares(st, player, corr, lbl), LAMBDA e :
         prss_share_loop(
            addCallback(e.st, e.ret,
                        Cb("prss_lambda", prss(st.id, dealer_prfs(st.id)[player], key), lbl)),
            corr, key, player + 1, Append(result, e.ret), lbl))

\* Runtime.prss_share
prss_share(st, element, lbl) ==
    Then(prss_share_loop(
            inc_pc_wrapper(st),
            correction(element.v,
                       shamir_recombine(
                          [p \in 1..(Threshold + 1) |->
                             <<p, prss(p, dealer_prfs(st.id)[st.id], inc_pc_wrapper(st).pc)>>])),
            inc_pc_wrapper(st).pc, 1, <<>>, lbl),
         LAMBDA r :
         R(LogPc(inc_pc_finally(r.st), "prss_share", st.pc, inc_pc_wrapper(st).pc, r.st.pc),
           DList(r.ret)))

\* self.players[id].prfs(modulus): the keys that player id holds for the
\* random elements that belong to no dealer
prfs(id) == [S \in {T \in Subsets : id \in T} |-> PrfKey(N + 1, S)]

\* FieldElement.sqrt: a square root of a square
FSqrt(a) == CHOOSE y \in Field : FMul(y, y) = a

\* finish dividing by the root of whatever square was opened
prss_share_random_finish_no_retry(st, square, share, lbl) ==
    IF square = 0
    THEN R([st EXCEPT !.err = @ \cup {"ZeroDivisionError"}], FailV)
    ELSE Then(Share(st, FE(FMul(FAdd(FMul(share, FInv(FSqrt(square))), 1), FInv(2)))),
              LAMBDA f : R(f.st, DRef(f.ret)))

\* Runtime.prss_share_random, field a prime field.  prss_keys records the
\* keys of the draws.
prss_share_random(st, binary, lbl) ==
    Then(prss(st.id, prfs(st.id), inc_pc_wrapper(st).pc), LAMBDA share :
    Then([inc_pc_wrapper(st) EXCEPT !.prss_keys = Append(@, inc_pc_wrapper(st).pc)],
         LAMBDA s0 :
    Then(IF ~binary
         THEN Then(Share(s0, FE(share)), LAMBDA f : R(f.st, DRef(f.ret)))
         ELSE Then(mul(s0, FE(share), FE(share), lbl), LAMBDA m :
              Then(open(m.st, m.ret, 2 * Threshold, lbl), LAMBDA o :
                   R(Runtime_callback(o.st, o.ret.v, Cb("finish", share, lbl)), o.ret))),
         LAMBDA r :
         R(LogPc(inc_pc_finally(r.st), "prss_share_random", st.pc, s0.pc, r.st.pc),
           r.ret))))

\* finish with player 1 drawing a second time whatever the square is
prss_share_random_finish_player_one(st, square, share, lbl) ==
    IF square = 0 \/ (st.id = 1 /\ Len(st.prss_keys) = 1)
    THEN prss_share_random(st, TRUE, lbl)
    ELSE Then(Share(st, FE(FMul(FAdd(FMul(share, FInv(FSqrt(square))), 1), FInv(2)))),
              LAMBDA f : R(f.st, DRef(f.ret)))

\* Runtime.prss_share_random.finish
prss_share_random_finish(st, square, share, lbl) ==
    IF square = 0
    THEN prss_share_random(st, TRUE, lbl)
    ELSE Then(Share(st, FE(FMul(FAdd(FMul(share, FInv(FSqrt(square))), 1), FInv(2)))),
              LAMBDA f : R(f.st, DRef(f.ret)))

(***************************************************************************)
(* Running the callbacks of a Deferred.                                    *)
(***************************************************************************)
\* the function of a callback, applied to the result of its Deferred
Func(st, cb, result) ==
    CASE cb.k = "split_result"      -> split_result(st, result, cb.a)
      [] cb.k = "_callback_fired"   -> _callback_fired(st, result, cb.a[1], cb.a[2])
      [] cb.k = "_cbDeferred"       -> _cbDeferred(st, result, cb.a[1], cb.a[2])
      [] cb.k = "filter_results"    -> R(st, result)
      [] cb.k = "_parseDListResult" -> R(st, result)
      [] cb.k = "_continue"         -> _continue(st, result, cb.a)
      [] cb.k = "add_lambda"  -> R(st, FieldElement_add(result.v[1], result.v[2]))
      [] cb.k = "sub_lambda"  -> R(st, FE(FSub(result.v[1].v, result.v[2].v)))
      [] cb.k = "mul_lambda"  -> R(st, FE(FMul(result.v[1].v, result.v[2].v)))
      [] cb.k = "xor_lambda"  ->
            R(st, FE(FSub(FAdd(result.v[1].v, result.v[2].v),
                          FMul(2, result.v[3].v))))
      [] cb.k = "prss_lambda" -> R(st, FE(FAdd(cb.a, result.v)))
      [] cb.k = "finish"      -> prss_share_random_finish(st, result.v, cb.a, cb.lbl)
      [] cb.k = "shutdown_lambda" -> R([st EXCEPT !.shutdown = TRUE], NoneV)
      [] cb.k = "open_pair"   -> R(st, PairV(cb.a, result.v))
      [] cb.k = "shamir_pair" -> R(st, PairV(cb.a, result.v))
      [] cb.k = "recombine"   ->
            R(st, FE(shamir_recombine([i \in 1..Len(result.v) |-> result.v[i].v])))
      [] cb.k = "broadcast"     -> broadcast(st, result, cb.a, cb.lbl)
      [] cb.k = "_shamir_share" -> _shamir_share(st, result, cb.lbl)
      [] cb.k = "_recombine"    -> _recombine(st, result.v, cb.a, cb.lbl)

\* the callbacks that are registered as callback and as errback
BothKinds == {"_callback_fired", "_cbDeferred", "_continue"}

\* One callback of a Deferred.  A callback added through Runtime.callback is
\* the callback_wrapper of func: it runs func under saved_pc and restores
\* the counter that was current.  A failure passes by a plain callback.
Apply(st, cb, result) ==
    IF result.t = "failure" /\ cb.k \notin BothKinds THEN R(st, result)
    ELSE IF cb.w
    THEN Then(Func(callback_wrapper(st, cb.pc), cb, result), LAMBDA r :
              R(LogCb(callback_wrapper_finally(r.st, st.pc), cb,
                      callback_wrapper(st, cb.pc).pc, st.pc),
                r.ret))
    ELSE Func(st, cb, result)

\* Deferred._runCallbacks: the callbacks run in the order they were added,
\* each on the result of the one before; a callback that returns a Deferred
\* pauses this one until that one has fired.
RunCallbacks(st, d) ==
    IF st.ds[d].paused > 0 \/ st.ds[d].cbs = <<>> THEN st
    ELSE Then(Apply([st EXCEPT !.ds[d].cbs = Tail(@)], Head(st.ds[d].cbs),
                    st.ds[d].result),
         LAMBDA r :
         IF r.ret.t = "dref"
         THEN addCallback([r.st EXCEPT !.ds[d].result = r.ret,
                                       !.ds[d].paused = @ + 1],
                          r.ret.v, Cb("_continue", d, <<>>))
         ELSE RunCallbacks([r.st EXCEPT !.ds[d].result = r.ret], d))


(***************************************************************************)
(* The players and their program.  All players run the same program, a     *)
(* list of statements  out = op(x, y)  over variables.  The inputs a and b *)
(* are Shares that resolve to the player's Shamir share of secret.a and    *)
(* secret.b: before the program runs for an input the program is given     *)
(* resolved, at any time for an input in prog.late.  k is a plain field    *)
(* element.                                                                *)
(***************************************************************************)
Stmt(op, x, y, out) == [op |-> op, x |-> x, y |-> y, out |-> out]

Inputs == <<"a", "b">>
InputNames == {Inputs[n] : n \in 1..Len(Inputs)}
VarNames == {"a", "b", "k", "g", "h", "x", "y", "z", "r"}

Program(n, late, stmts) == [n |-> n, late |-> late, stmts |-> stmts]

\* test_open and test_open_deferred
ProgOpen == Program(MaxPlayers, {"a"}, <<Stmt("open", "a", "a", "r")>>)
\* test_mul
ProgMul == Program(MaxPlayers, {"a"}, <<Stmt("mul", "a", "b", "x")>>)
\* the example of Runtime.__init__: two operations whose inputs arrive in
\* different orders at different players
ProgTwoOpens == Program(MaxPlayers - 1, {"a", "b"},
                        <<Stmt("open", "a", "a", "r"), Stmt("open", "b", "b", "x")>>)
\* test_add, test_add_coerce, test_sub, test_sub_coerce
ProgArith == Program(MaxPlayers - 1, {"a", "b"},
                     <<Stmt("add", "a", "b", "x"), Stmt("sub", "a", "b", "y"),
                       Stmt("add", "b", "k", "r")>>)
\* test_xor
ProgXor == Program(MaxPlayers, {"a"}, <<Stmt("xor_int", "a", "b", "x")>>)

\* open called with a threshold that the players cannot meet: the assertion
\* of _recombine fails in the callback of open
ProgOpenAll == Program(MaxPlayers - 1, {"a"}, <<Stmt("open_n", "a", "a", "r")>>)

\* mul among 2 players with threshold 1: the 2 re-shared products are fewer
\* than the 2t+1 that _recombine is asked for
ProgMulTwo == Program(MaxPlayers - 1, {"a"}, <<Stmt("mul", "a", "b", "x")>>)

Programs == {ProgOpen, ProgMul, ProgTwoOpens, ProgArith, ProgXor, ProgOpenAll}

\* the share of input v dealt to player i
InputShare(i, v) == PolyEval(secret[v], dealer[v], i, 1)

CoefVecs == [1..Threshold -> rset]

RECURSIVE MakeInputs(_, _)
\* the input Shares, created unresolved before the program starts
MakeInputs(st, n) == IF n = 0 THEN st ELSE MakeInputs(Share(st, NoneV).st, n - 1)

InputIndex(v) == CHOOSE n \in 1..Len(Inputs) : Inputs[n] = v

\* no call of a function on its own is in progress
NoCall == [op |-> "none"]

\* the state after the construction of the Runtimes
InitRuntimes ==
    /\ rt = [i \in Players |-> MakeInputs(RuntimeInit(i), Len(Inputs))]
    /\ chan = [i \in Players |-> [j \in Players |-> <<>>]]
    /\ ip = [i \in Players |-> 0]
    /\ env = [i \in Players |->
                [v \in VarNames |->
                   IF v \in InputNames THEN DRef(InputIndex(v))
                   ELSE IF v = "k" THEN FE(Modulus - 1)
                   ELSE IF v = "g" THEN GF256(3)
                   ELSE IF v = "h" THEN GF256(5) ELSE NoneV]]

\* one choice of the secrets and of the polynomials of the dealer
OneSecret == [v \in InputNames |-> IF v = "a" THEN Modulus - 2 ELSE Modulus - 1]
OneDealer == [v \in InputNames |-> [k \in 1..Threshold |-> IF v = "a" THEN Modulus - 1 ELSE Modulus - 2]]

\* Every order of events, for one choice of the values.
Init ==
    /\ prog \in Programs
    /\ secret = OneSecret
    /\ dealer = OneDealer
    /\ call = NoCall
    /\ rset = {Modulus - 2}
    /\ InitRuntimes

\* add, sub and xor_bit, and an open after them
ProgLocal == Program(MaxPlayers - 1, {"a"},
                     <<Stmt("add", "a", "b", "x"), Stmt("sub", "x", "k", "y"),
                       Stmt("xor_bit", "g", "h", "z"), Stmt("open", "y", "y", "r")>>)

ProgramsLocal == {ProgArith, ProgLocal}

InitLocal ==
    /\ prog \in ProgramsLocal
    /\ secret \in [InputNames -> Secrets]
    /\ dealer = OneDealer
    /\ call = NoCall
    /\ rset = {Modulus - 2}
    /\ InitRuntimes

\* The programs that ask for a reconstruction from too few shares.
ProgramsTooFew == {ProgOpenAll, ProgMulTwo}

InitTooFew ==
    /\ prog \in ProgramsTooFew
    /\ secret \in [InputNames -> Secrets]
    /\ dealer = OneDealer
    /\ call = NoCall
    /\ rset = {Modulus - 2}
    /\ InitRuntimes

\* an open whose _recombine raises, followed by an open: the input of the
\* first arrives late, or is given, so that _recombine raises in a callback
\* run by the reactor, or during the call of open
ProgRaiseLate == Program(MaxPlayers - 1, {"a"},
                         <<Stmt("open_n", "a", "a", "r"), Stmt("open", "b", "b", "x")>>)
ProgRaiseGiven == Program(MaxPlayers - 1, {},
                          <<Stmt("open_n", "a", "a", "r"), Stmt("open", "b", "b", "x")>>)

ProgramsRaise == {ProgRaiseLate, ProgRaiseGiven}

InitRaise ==
    /\ prog \in ProgramsRaise
    /\ secret \in [InputNames -> Secrets]
    /\ dealer = OneDealer
    /\ call = NoCall
    /\ rset = {Modulus - 2}
    /\ InitRuntimes

RECURSIVE Flush(_, _, _)
\* the strings of a handler of player i, put on the channels in send order
Flush(ch, i, out) ==
    IF out = <<>> THEN ch
    ELSE Flush([ch EXCEPT ![i][Head(out).to] = Append(@, Head(out).msg)],
               i, Tail(out))

\* the end of a handler of player i
Finish(i, st) ==
    /\ rt' = [rt EXCEPT ![i] = [st EXCEPT !.out = <<>>, !.rnd = <<>>, !.ndraw = 0]]
    /\ chan' = Flush(chan, i, st.out)

\* one statement of the program
Exec(st, s, e) ==
    CASE s.op = "open"    -> open(st, e[s.x], Threshold, <<s.out>>)
      [] s.op = "open_n"  -> open(st, e[s.x], N, <<s.out>>)
      [] s.op = "add"     -> add(st, e[s.x], e[s.y])
      [] s.op = "sub"     -> sub(st, e[s.x], e[s.y])
      [] s.op = "xor_bit" -> add(st, e[s.x], e[s.y])
      [] s.op = "mul"     -> mul(st, e[s.x], e[s.y], <<s.out>>)
      [] s.op = "xor_int" -> xor_int(st, e[s.x], e[s.y], <<s.out>>)
      [] s.op = "prss_share" -> prss_share(st, FE(InputShare(st.id, s.x)), <<s.out>>)
      [] s.op = "prss_share_random" -> prss_share_random(st, FALSE, <<s.out>>)
      [] s.op = "prss_share_random_binary" -> prss_share_random(st, TRUE, <<s.out>>)

RECURSIVE RunProgram(_, _, _)
\* the statements of the program from statement n on: the state of the
\* Runtime and the variables afterwards
RunProgram(st, e, n) ==
    IF n > Len(prog.stmts) THEN [st |-> st, env |-> e]
    ELSE Then(Exec(st, prog.stmts[n], e), LAMBDA r :
              RunProgram(r.st, [e EXCEPT ![prog.stmts[n].out] = r.ret], n + 1))

\* the inputs of player i that the program is given resolved
Given(i) == \A v \in InputNames \ prog.late : rt[i].ds[InputIndex(v)].called

\* the program of player i has made its calls
Ran(i, r) ==
    /\ Finish(i, r.st)
    /\ env' = [env EXCEPT ![i] = r.env]

\* Player i runs its program: the main script makes all its calls and then
\* starts the reactor.
Run(i) ==
    /\ ip[i] = 0
    /\ Given(i)
    /\ \E rnd \in CoefVecs : Ran(i, RunProgram([rt[i] EXCEPT !.rnd = rnd], env[i], 1))
    /\ ip' = [ip EXCEPT ![i] = 1]
    /\ UNCHANGED <<prog, secret, dealer, rset, call>>

\* The input Share v of player i resolves: before the program runs (the
\* Share is given resolved) or, for a late input, at any time.
InputArrives(i, v) ==
    /\ ~rt[i].ds[InputIndex(v)].called
    /\ \E rnd \in CoefVecs :
         Finish(i, Deferred_callback([rt[i] EXCEPT !.rnd = rnd], InputIndex(v),
                                     FE(InputShare(i, v))))
    /\ UNCHANGED <<ip, env, prog, secret, dealer, rset, call>>

\* The reactor of player i, running once the program has made its calls,
\* receives the next string of the channel from player j.
Receive(i, j) ==
    /\ ip[i] = 1
    /\ chan[j][i] # <<>>
    /\ rt' = [rt EXCEPT ![i] = stringReceived(@, j, Head(chan[j][i]))]
    /\ chan' = [chan EXCEPT ![j][i] = Tail(@)]
    /\ UNCHANGED <<ip, env, prog, secret, dealer, rset, call>>

\* The reactor of player i runs the oldest call given to callLater.
RunDelayed(i) ==
    /\ ip[i] = 1
    /\ rt[i].later # <<>>
    /\ \E rnd \in CoefVecs :
         LET c  == Head(rt[i].later)
             s0 == [rt[i] EXCEPT !.rnd = rnd, !.later = Tail(@)]
         IN  Finish(i, Deferred_callback(s0, c.d, FE(c.value)))
    /\ UNCHANGED <<ip, env, prog, secret, dealer, rset, call>>

Next ==
    \/ \E i \in Players : Run(i)
    \/ \E i \in Players : \E v \in InputNames : InputArrives(i, v)
    \/ \E i, j \in Players : Receive(i, j)
    \/ \E i \in Players : RunDelayed(i)

Spec == Init /\ [][Next]_vars

SpecTooFew == InitTooFew /\ [][Next]_vars

SpecLocal == InitLocal /\ [][Next]_vars

SpecRaise == InitRaise /\ [][Next]_vars

(***************************************************************************)
(* The connections.  The Runtimes are constructed, each with its listening *)
(* port and its Deferreds protocols; the connections are made and the      *)
(* protocols built when the reactors run.  call holds the state of the     *)
(* network: tcp[a][b] the connections a made to b, accepted[a][b] those of *)
(* them for which b has built its protocol, fired[i][j] the calls of       *)
(* protocols[j].callback at player i, held[i][j] the sendShare callbacks   *)
(* waiting on protocols[j] at player i; issued, wire, dlv, released and    *)
(* early record, for the claims, the strings of player i for peer j in the *)
(* order _exchange_shares issued them, in the order they were written to   *)
(* the transport and in the order stringReceived got them, how many of     *)
(* them had waited, and the peers written to while a protocol of the       *)
(* player was not there yet.                                               *)
(***************************************************************************)
\* Runtime.connect initiating no connection to the players above it but to
\* those below it
connect_to_lower(self_id, id) == id < self_id

\* Runtime.connect initiating a connection to every other player
connect_to_all(self_id, id) == id # self_id

\* Runtime.connect: "if id > self.id: reactor.connectTCP(...)"
connect_to(self_id, id) == id > self_id

\* Runtime.__init__: protocols, with protocols[self.id].callback("Unused")
ConnInit ==
    [op |-> "connect",
     tcp      |-> [a \in Players |-> [b \in Players |-> 0]],
     accepted |-> [a \in Players |-> [b \in Players |-> 0]],
     fired    |-> [i \in Players |-> [j \in Players |-> IF i = j THEN 1 ELSE 0]],
     held     |-> [i \in Players |-> [j \in Players |-> <<>>]],
     issued   |-> [i \in Players |-> [j \in Players |-> <<>>]],
     wire     |-> [i \in Players |-> [j \in Players |-> <<>>]],
     released |-> [i \in Players |-> [j \in Players |-> 0]],
     dlv      |-> [i \in Players |-> [j \in Players |-> <<>>]],
     early    |-> {},
     wait_for |-> FALSE,
     result   |-> [i \in Players |-> [j \in Players |-> IF i = j THEN "Unused" ELSE "none"]],
     shut     |-> [i \in Players |-> FALSE],
     closing  |-> [i \in Players |-> [j \in Players |-> FALSE]],
     closed   |-> [i \in Players |-> [j \in Players |-> FALSE]],
     closeerr |-> {}]

\* the protocol of player i for peer j exists: buildProtocol has made it
Built(c, i, j) == c.tcp[i][j] > 0 \/ c.accepted[j][i] > 0

\* all Deferreds protocols of player i have fired
AllUp(c, i) == \A j \in Players : c.fired[i][j] > 0

\* sendString on the transport of the protocol of player i for peer to
Transmit(nw, i, to, msg) ==
    [c  |-> [nw.c EXCEPT !.wire[i][to] = Append(@, msg),
                         !.early = @ \cup {t \in {<<i, to>>} : ~AllUp(nw.c, i)}],
     ch |-> [nw.ch EXCEPT ![i][to] = Append(@, msg)]]

RECURSIVE AddSends(_, _, _)
\* "self.protocols[id].addCallback(ShareExchanger.sendShare, pc, share)" for
\* the strings of a handler of player i, in the order of the calls: the
\* callback runs at once on a Deferred that has fired, and waits otherwise
AddSends(nw, i, out) ==
    IF out = <<>> THEN nw
    ELSE AddSends(
           IF nw.c.fired[i][Head(out).to] > 0
           THEN Transmit([nw EXCEPT !.c.issued[i][Head(out).to] = Append(@, Head(out).msg)],
                         i, Head(out).to, Head(out).msg)
           ELSE [nw EXCEPT !.c.issued[i][Head(out).to] = Append(@, Head(out).msg),
                           !.c.held[i][Head(out).to] = Append(@, Head(out).msg)],
           i, Tail(out))

RECURSIVE RunSends_last_first(_, _, _, _)
\* the callbacks of protocols[j] run from the last added to the first
RunSends_last_first(nw, i, j, held) ==
    IF held = <<>> THEN nw
    ELSE RunSends_last_first(
           Transmit([nw EXCEPT !.c.released[i][j] = @ + 1], i, j, held[Len(held)]),
           i, j, SubSeq(held, 1, Len(held) - 1))

RECURSIVE RunSends(_, _, _, _)
\* the callbacks of protocols[j] at player i run, in the order they were
\* added
RunSends(nw, i, j, held) ==
    IF held = <<>> THEN nw
    ELSE RunSends(Transmit([nw EXCEPT !.c.released[i][j] = @ + 1], i, j, Head(held)),
                  i, j, Tail(held))

\* "lambda p: p.loseConnection()" on the result of protocols[j] at player
\* i: ShareExchanger.loseConnection closes the transport; the string
\* "Unused" has no loseConnection and the callback ends in AttributeError
loseConnection(c, i, j) ==
    IF c.result[i][j] = "ShareExchanger"
    THEN [c EXCEPT !.closed[i][j] = TRUE, !.closing[i][j] = FALSE]
    ELSE [c EXCEPT !.closeerr = @ \cup {<<i, j>>}, !.closing[i][j] = FALSE]

\* protocols[j].callback(p) at player i: the callbacks run in the order
\* they were added, those of sendShare and then, after a shutdown, the
\* close request
protocol_callback(nw, i, j) ==
    IF nw.c.fired[i][j] > 0
    THEN [nw EXCEPT !.c.fired[i][j] = 2]
    ELSE Then(RunSends([nw EXCEPT !.c.fired[i][j] = 1, !.c.held[i][j] = <<>>,
                                  !.c.result[i][j] = "ShareExchanger"],
                       i, j, nw.c.held[i][j]),
              LAMBDA n : IF n.c.closing[i][j]
                         THEN [n EXCEPT !.c = loseConnection(n.c, i, j)]
                         ELSE n)

RECURSIVE shutdown_loop(_, _, _)
\* the loop of Runtime.shutdown over the values of protocols: the callback
\* runs at once on a Deferred that has fired and waits otherwise
shutdown_loop(c, i, j) ==
    IF j > N THEN c
    ELSE shutdown_loop(IF c.fired[i][j] > 0 THEN loseConnection(c, i, j)
                       ELSE [c EXCEPT !.closing[i][j] = TRUE],
                       i, j + 1)

\* Runtime.shutdown; reactor.stop, a second later, is not modelled
shutdown(c, i) == shutdown_loop([c EXCEPT !.shut[i] = TRUE], i, 1)

\* "dl.addCallback(lambda _: self.shutdown())": the shutdown that the
\* callback of wait_for has called in the handler of player i that ends
shutdown_called(c, i, st) ==
    IF st.shutdown /\ ~c.shut[i] THEN shutdown(c, i) ELSE c

\* the end of a handler of player i that left the Runtime st
FinishConn(i, st, nw) ==
    /\ rt' = [rt EXCEPT ![i] = [st EXCEPT !.out = <<>>, !.rnd = <<>>, !.ndraw = 0]]
    /\ call' = shutdown_called(nw.c, i, st)
    /\ chan' = nw.ch

Network == [c |-> call, ch |-> chan]

\* test_open, the input Shares given resolved
ProgOpenGiven == Program(MaxPlayers, {}, <<Stmt("open", "a", "a", "r")>>)

ProgramsConn == {ProgTwoOpens, ProgOpenGiven}

InitConn ==
    /\ prog \in ProgramsConn
    /\ secret = OneSecret
    /\ dealer = OneDealer
    /\ rset = {Modulus - 2}
    /\ call = ConnInit
    /\ InitRuntimes

\* the program of player i makes its calls and, as the applications do,
\* ends in wait_for on its results, before its reactor runs
ConnRun(i) ==
    /\ ip[i] = 0
    /\ Given(i)
    /\ \E rnd \in CoefVecs :
         Then(RunProgram([rt[i] EXCEPT !.rnd = rnd], env[i], 1), LAMBDA r :
         Then(IF call.wait_for
              THEN wait_for(r.st, [k \in 1..Len(prog.stmts) |-> r.env[prog.stmts[k].out].v])
              ELSE r.st,
              LAMBDA st :
              /\ FinishConn(i, st, AddSends(Network, i, st.out))
              /\ env' = [env EXCEPT ![i] = r.env]))
    /\ ip' = [ip EXCEPT ![i] = 1]
    /\ UNCHANGED <<prog, secret, dealer, rset>>

ConnInputArrives(i, v) ==
    /\ ~rt[i].ds[InputIndex(v)].called
    /\ \E rnd \in CoefVecs :
         Then(Deferred_callback([rt[i] EXCEPT !.rnd = rnd], InputIndex(v),
                                FE(InputShare(i, v))),
              LAMBDA st : FinishConn(i, st, AddSends(Network, i, st.out)))
    /\ UNCHANGED <<ip, env, prog, secret, dealer, rset>>

\* reactor.connectTCP of player i to player id succeeds; the factory of
\* player i builds its protocol: buildProtocol gives the call of
\* protocols[id].callback to reactor.callLater
Connect(i, id) ==
    /\ ip[i] = 1
    /\ connect_to(i, id)
    /\ call.tcp[i][id] = 0
    /\ call' = [call EXCEPT !.tcp[i][id] = 1]
    /\ rt' = [rt EXCEPT ![i].later = Append(@, [peer |-> id])]
    /\ UNCHANGED <<chan, ip, env, prog, secret, dealer, rset>>

\* the listening port of player i accepts the connection of player id:
\* buildProtocol of the factory of player i
Accept(i, id) ==
    /\ ip[i] = 1
    /\ call.tcp[id][i] > call.accepted[id][i]
    /\ call' = [call EXCEPT !.accepted[id][i] = @ + 1]
    /\ rt' = [rt EXCEPT ![i].later = Append(@, [peer |-> id])]
    /\ UNCHANGED <<chan, ip, env, prog, secret, dealer, rset>>

\* the protocol of player i for player j receives the next string
ConnReceive(i, j) ==
    /\ ip[i] = 1
    /\ Built(call, i, j)
    /\ ~call.closed[i][j]
    /\ chan[j][i] # <<>>
    /\ rt' = [rt EXCEPT ![i] = stringReceived(@, j, Head(chan[j][i]))]
    /\ chan' = [chan EXCEPT ![j][i] = Tail(@)]
    /\ call' = [call EXCEPT !.dlv[j][i] = Append(@, Head(chan[j][i]))]
    /\ UNCHANGED <<ip, env, prog, secret, dealer, rset>>

\* the reactor of player i runs the oldest call given to callLater: the
\* callback of a Share of incoming_shares, or that of a Deferred protocols
ConnRunDelayed(i) ==
    /\ ip[i] = 1
    /\ rt[i].later # <<>>
    /\ IF "peer" \in DOMAIN Head(rt[i].later)
       THEN FinishConn(i, [rt[i] EXCEPT !.later = Tail(@)],
                       protocol_callback(Network, i, Head(rt[i].later).peer))
       ELSE \E rnd \in CoefVecs :
              Then(Deferred_callback([rt[i] EXCEPT !.rnd = rnd, !.later = Tail(@)],
                                     Head(rt[i].later).d, FE(Head(rt[i].later).value)),
                   LAMBDA st : FinishConn(i, st, AddSends(Network, i, st.out)))
    /\ UNCHANGED <<ip, env, prog, secret, dealer, rset>>

NextConn ==
    \/ \E i \in Players : ConnRun(i)
    \/ \E i \in Players : \E v \in InputNames : ConnInputArrives(i, v)
    \/ \E i, j \in Players : Connect(i, j)
    \/ \E i, j \in Players : Accept(i, j)
    \/ \E i, j \in Players : ConnReceive(i, j)
    \/ \E i \in Players : ConnRunDelayed(i)

SpecConn == InitConn /\ [][NextConn]_vars

\* The program ends in wait_for on its results, as the applications do.
InitShutdown ==
    /\ prog \in ProgramsConn
    /\ secret = OneSecret
    /\ dealer = OneDealer
    /\ rset = {Modulus - 2}
    /\ call = [ConnInit EXCEPT !.wait_for = TRUE]
    /\ InitRuntimes

SpecShutdown == InitShutdown /\ [][NextConn]_vars

(***************************************************************************)
(* Every choice of the values, for one order of events per pattern of late *)
(* inputs: the players run in the order of their ids, a late input of a    *)
(* player arrives before its program runs or after all have run, and the   *)
(* reactors start when all programs have made their calls, the delayed     *)
(* calls before the strings and the strings before the late inputs.        *)
(***************************************************************************)
\* test_open, test_open_deferred
ProgOpenLate == Program(MaxPlayers, {"a"}, <<Stmt("open", "a", "a", "r")>>)
\* test_mul
ProgMulOpen == Program(MaxPlayers, {},
                       <<Stmt("mul", "a", "b", "x"), Stmt("open", "x", "x", "r")>>)
\* _mul_stress_test: a chain of multiplications
ProgMulChain == Program(MaxPlayers, {},
                        <<Stmt("mul", "a", "b", "x"), Stmt("mul", "x", "b", "y"),
                          Stmt("open", "y", "y", "r")>>)

\* test_xor: the exclusive or of two bits, opened
ProgXorOpen == Program(MaxPlayers, {},
                       <<Stmt("xor_int", "a", "b", "x"), Stmt("open", "x", "x", "r")>>)

ProgramsVal == {ProgOpenLate, ProgMulOpen, ProgMulChain, ProgXorOpen}

\* The chain is run on one choice of the inputs, with every choice of the
\* polynomials the players draw to share their products again.
InitVal ==
    /\ prog \in ProgramsVal
    /\ secret \in [InputNames -> IF prog = ProgXorOpen THEN {0, 1} ELSE Secrets]
    /\ dealer \in [InputNames -> [1..Threshold -> Coefs]]
    /\ prog = ProgMulChain => secret = OneSecret /\ dealer = OneDealer
    /\ call = NoCall
    /\ rset = Coefs
    /\ InitRuntimes

AllRan == \A i \in Players : ip[i] = 1

\* the turn of player i to make the calls of its program
RunTurn(i) == \A j \in Players : j < i => ip[j] = 1

GivenTurn(i, v) ==
    \/ v \notin prog.late
    \/ ip[i] = 0 /\ RunTurn(i)
    \/ /\ AllRan
       /\ \A j \in Players : rt[j].later = <<>>
       /\ \A j, k \in Players : chan[j][k] = <<>>

DelayedTurn(i) == AllRan /\ \A j \in Players : j < i => rt[j].later = <<>>

ReceiveTurn(i, j) ==
    /\ AllRan
    /\ \A k \in Players : rt[k].later = <<>>
    /\ \A k, m \in Players :
          (k < i \/ (k = i /\ m < j)) => chan[m][k] = <<>>

NextVal ==
    \/ \E i \in Players : RunTurn(i) /\ Run(i)
    \/ \E i \in Players : \E v \in InputNames : GivenTurn(i, v) /\ InputArrives(i, v)
    \/ \E i, j \in Players : ReceiveTurn(i, j) /\ Receive(i, j)
    \/ \E i \in Players : DelayedTurn(i) /\ RunDelayed(i)

SpecVal == InitVal /\ [][NextVal]_vars

(***************************************************************************)
(* Pseudo-random secret sharing by the players: every choice of the keys   *)
(* and of the elements, in the order of events of SpecVal.                 *)
(***************************************************************************)
\* bound of the model: the largest PRF key
MaxKey == 1
PrfKeys == 0..MaxKey

\* test_share_int: every player shares the element it holds, here its
\* share of the input a
ProgPrssShare == Program(MaxPlayers, {}, <<Stmt("prss_share", "a", "a", "x")>>)

\* a random element and a random bit, among the calls of a program
ProgPrssRandom ==
    Program(MaxPlayers, {},
            <<Stmt("prss_share_random", "a", "a", "x"), Stmt("open", "a", "a", "r")>>)
ProgPrssRandomBinary ==
    Program(MaxPlayers, {}, <<Stmt("prss_share_random_binary", "a", "a", "x")>>)

ProgramsPrss == {ProgPrssShare, ProgPrssRandom, ProgPrssRandomBinary}

InitPrss ==
    /\ prog \in ProgramsPrss
    /\ secret \in [InputNames -> Secrets]
    /\ dealer \in [InputNames -> [1..Threshold -> Coefs]]
    /\ secret["b"] = OneSecret["b"] /\ dealer["b"] = OneDealer["b"]
    /\ prog # ProgPrssShare => secret = OneSecret /\ dealer = OneDealer
    /\ call \in [op : {"prss"}, keys : [Subsets -> PrfKeys]]
    /\ rset = Coefs
    /\ InitRuntimes

SpecPrss == InitPrss /\ [][NextVal]_vars

(***************************************************************************)
(* The binary draw with the players free of each other: each player runs   *)
(* its delayed calls before it receives, and receives from its peers in    *)
(* their order, but the players go at any speed against each other.  The   *)
(* PRF key of the subset without player 1 takes every value, the other     *)
(* keys are 0: with the key 1 the first square opened is zero.             *)
(***************************************************************************)
InitRetry ==
    /\ prog = ProgPrssRandomBinary
    /\ secret = OneSecret /\ dealer = OneDealer
    /\ \E c \in PrfKeys :
         call = [op |-> "prss", keys |-> [S \in Subsets |-> IF 1 \in S THEN 0 ELSE c]]
    /\ rset = {MaxCoef}
    /\ InitRuntimes

\* the inputs of player i are given just before its program runs
GivenBeforeRun(i) == ip[i] = 0 /\ RunTurn(i)

\* player i has nothing delayed, and no peer before j has a string for it
ReceiveInOrder(i, j) ==
    /\ AllRan
    /\ rt[i].later = <<>>
    /\ \A k \in Players : k < j => chan[k][i] = <<>>

NextRetry ==
    \/ \E i \in Players : RunTurn(i) /\ Run(i)
    \/ \E i \in Players : \E v \in InputNames : GivenBeforeRun(i) /\ InputArrives(i, v)
    \/ \E i, j \in Players : ReceiveInOrder(i, j) /\ Receive(i, j)
    \/ \E i \in Players : AllRan /\ RunDelayed(i)

SpecRetry == InitRetry /\ [][NextRetry]_vars

(***************************************************************************)
(* Progress.  The programs whose calls meet their preconditions, over all  *)
(* interleavings, with the reactors fair: a program that is started runs,  *)
(* an input that is dealt arrives, a string that was sent is delivered and *)
(* a delayed call is made.                                                 *)
(***************************************************************************)
ProgramsLive == {ProgOpen, ProgMul, ProgTwoOpens, ProgXor, ProgPrssShare}

InitLive ==
    /\ prog \in ProgramsLive
    /\ secret = OneSecret
    /\ dealer = OneDealer
    /\ call = [op |-> "prss", keys |-> [S \in Subsets |-> MaxKey]]
    /\ rset = {Modulus - 2}
    /\ InitRuntimes

\* Run(i) can be taken, and is taken
RunEnabled(i) == i \in Players /\ ip[i] = 0 /\ Given(i)
RunTaken(i) == i \in Players /\ ip[i] = 0 /\ ip'[i] = 1

\* InputArrives(i, v) can be taken, and is taken
InputArrivesEnabled(i, v) == i \in Players /\ ~rt[i].ds[InputIndex(v)].called
InputArrivesTaken(i, v) ==
    i \in Players /\ ~rt[i].ds[InputIndex(v)].called /\ rt'[i].ds[InputIndex(v)].called

\* RunDelayed(i) can be taken, and is taken: only stringReceived adds to
\* the delayed calls
RunDelayedEnabled(i) == i \in Players /\ ip[i] = 1 /\ rt[i].later # <<>>
RunDelayedTaken(i) ==
    i \in Players /\ ip[i] = 1 /\ rt[i].later # <<>> /\ rt'[i].later = Tail(rt[i].later)

\* Weak fairness of the four actions of every player.  WF_vars(A) is
\* []<>~ENABLED <<A>>_vars \/ []<><<A>>_vars; for the actions that run the
\* callbacks it is written out with the guard of the action.
Fairness ==
    /\ \A i \in 1..MaxPlayers : []<>~RunEnabled(i) \/ []<><<RunTaken(i)>>_vars
    /\ \A i \in 1..MaxPlayers : \A v \in InputNames :
           []<>~InputArrivesEnabled(i, v) \/ []<><<InputArrivesTaken(i, v)>>_vars
    /\ \A i, j \in 1..MaxPlayers :
           WF_vars(i \in Players /\ j \in Players /\ Receive(i, j))
    /\ \A i \in 1..MaxPlayers : []<>~RunDelayedEnabled(i) \/ []<><<RunDelayedTaken(i)>>_vars

SpecLive == InitLive /\ [][Next]_vars /\ Fairness

\* The steps named in Fairness are the steps of the actions.
FairnessOfActions ==
    [][/\ \A i \in Players : RunTaken(i) <=> Run(i)
       /\ \A i \in Players : \A v \in InputNames :
            InputArrivesTaken(i, v) <=> InputArrives(i, v)
       /\ \A i \in Players : RunDelayedTaken(i) <=> RunDelayed(i)]_vars


(***************************************************************************)
(* Sharing and recombining on their own: share(secret, threshold,          *)
(* num_players) for every secret of the field, every threshold and number  *)
(* of players the field has evaluation points for and every polynomial,    *)
(* then recombine on threshold + 1 of the shares.                          *)
(***************************************************************************)
\* the players and the runtimes are not involved
Idle ==
    /\ prog = ProgOpen /\ secret = OneSecret /\ dealer = OneDealer
    /\ rset = {Modulus - 2}
    /\ InitRuntimes

IdleUnchanged == UNCHANGED <<rt, chan, ip, env, prog, secret, dealer, rset>>

RECURSIVE PickPoints(_, _, _)
\* the shares of the players in ids, in the order of the list shares
PickPoints(shares, ids, i) ==
    IF i > Len(shares) THEN <<>>
    ELSE (IF i \in ids THEN <<shares[i]>> ELSE <<>>) \o PickPoints(shares, ids, i + 1)

InitShamir == Idle /\ call = NoCall

ShamirShare ==
    /\ call.op = "none"
    /\ \E n \in 2..(Modulus - 1) : \E threshold \in 1..(n - 1) :
       \E s \in Field : \E coefs \in [1..threshold -> Field] :
          call' = [op |-> "share", secret |-> s, threshold |-> threshold,
                   n |-> n, shares |-> shamir_share_fn(s, coefs, n)]
    /\ IdleUnchanged

ShamirRecombine ==
    /\ call.op = "share"
    /\ \E ids \in SUBSET (1..call.n) :
          /\ Cardinality(ids) = call.threshold + 1
          /\ LET points == PickPoints(call.shares, ids, 1)
             IN  call' = [op |-> "recombine", secret |-> call.secret,
                          threshold |-> call.threshold, n |-> call.n,
                          shares |-> call.shares, points |-> points,
                          result |-> shamir_recombine(points)]
    /\ IdleUnchanged

NextShamir == ShamirShare \/ ShamirRecombine

SpecShamir == InitShamir /\ [][NextShamir]_vars

(***************************************************************************)
(* prss_share_random with binary requested, on the values: the field is a  *)
(* Blum prime field, of which the square root is taken.  The PRFs of the   *)
(* subsets are evaluated on a new key at every attempt.                    *)
(***************************************************************************)
\* bound of the model: the number of times the draw is made
MaxAttempts == 2

\* the smallest field of more than MaxPlayers elements with a square root
\* by exponentiation
Blum == CHOOSE p \in (MaxPlayers + 1)..(4 * MaxPlayers + 3) :
          /\ IsPrime(p) /\ p % 4 = 3
          /\ \A q \in (MaxPlayers + 1)..(p - 1) : ~(IsPrime(q) /\ q % 4 = 3)

BInv(a) == IF a % Blum = 0 THEN 0 ELSE CHOOSE y \in 1..(Blum - 1) : (a * y) % Blum = 1

RECURSIVE BPow(_, _)
BPow(a, e) == IF e = 0 THEN 1 ELSE (a * BPow(a, e - 1)) % Blum

\* FieldElement.sqrt
sqrt(a) == BPow(a, (Blum + 1) \div 4)

\* viff.shamir.recombine in the Blum prime field
BRecombine(points) ==
    LET prod[i \in 1..Len(points), j \in 0..Len(points)] ==
            IF j = 0 THEN 1
            ELSE IF j = i THEN prod[i, j - 1]
            ELSE (prod[i, j - 1] * points[j][1]
                    * BInv((points[j][1] - points[i][1]) % Blum)) % Blum
        sum[i \in 0..Len(points)] ==
            IF i = 0 THEN 0
            ELSE (sum[i - 1] + points[i][2] * prod[i, Len(points)]) % Blum
    IN  sum[Len(points)]

\* the subsets of n - threshold of the MaxPlayers players
RandomSubsets == {S \in SUBSET (1..MaxPlayers) : Cardinality(S) = MaxPlayers - Threshold}

\* viff.prss.prss(n, j, field, prfs, key) with the keys of player j, prf[S]
\* being the value of the PRF of subset S on the key
prss_random(j, prf) ==
    LET poly[S \in RandomSubsets, x \in 0..MaxPlayers] ==
            IF x = 0 THEN 1
            ELSE IF x \in S THEN poly[S, x - 1]
            ELSE (poly[S, x - 1] * ((x - j) % Blum) * BInv(x)) % Blum
        RECURSIVE sum(_)
        sum(todo) ==
            IF todo = {} THEN 0
            ELSE LET S == CHOOSE T \in todo : TRUE
                 IN  (poly[S, MaxPlayers] * prf[S] + sum(todo \ {S})) % Blum
    IN  sum({S \in RandomSubsets : j \in S})

\* the share not divided by the root
finish_no_root(square, share) == ((share + 1) * BInv(2)) % Blum

\* prss_share_random.finish, when the square is not 0
finish(square, share) == ((share * BInv(sqrt(square)) + 1) * BInv(2)) % Blum

InitPrssRandom ==
    /\ Idle
    /\ call = [op |-> "prss_share_random", stage |-> "draw", attempt |-> 1,
               share |-> <<>>, square |-> 0, result |-> <<>>]

\* prss_share_random: every player evaluates prss at the counter
PrssRandomDraw ==
    /\ call.op = "prss_share_random" /\ call.stage = "draw"
    /\ call.attempt <= MaxAttempts
    /\ \E prf \in [RandomSubsets -> 0..(Blum - 1)] :
         call' = [call EXCEPT
                    !.stage = "drawn",
                    !.share = [j \in 1..MaxPlayers |-> prss_random(j, prf)]]
    /\ IdleUnchanged

\* "result = self.open(self.mul(share, share), 2*self.threshold)"
PrssRandomOpen ==
    /\ call.op = "prss_share_random" /\ call.stage = "drawn"
    /\ call' = [call EXCEPT
                  !.stage = "opened",
                  !.square = BRecombine([j \in 1..(2 * Threshold + 1) |->
                                           <<j, (call.share[j] * call.share[j]) % Blum>>])]
    /\ IdleUnchanged

\* the callback finish of every player: the draw is made again if the
\* square is 0
PrssRandomFinish ==
    /\ call.op = "prss_share_random" /\ call.stage = "opened"
    /\ call' = IF call.square = 0
               THEN [call EXCEPT !.stage = "draw", !.attempt = @ + 1,
                                 !.share = <<>>, !.square = 0]
               ELSE [call EXCEPT
                       !.stage = "done",
                       !.result = [j \in 1..MaxPlayers |->
                                     finish(call.square, call.share[j])]]
    /\ IdleUnchanged

NextPrssRandom == PrssRandomDraw \/ PrssRandomOpen \/ PrssRandomFinish

SpecPrssRandom == InitPrssRandom /\ [][NextPrssRandom]_vars

(***************************************************************************)
(* The comparison, on the values that the Shares share: by add, sub, mul   *)
(* and open a Share of the result shares the sum, difference and product   *)
(* of the values and opens to the value.  The inputs are numbers of        *)
(* BitLength bits in the field Zp, the result is an element of GF256.      *)
(***************************************************************************)
\* bound of the model: the bit-length l of the numbers compared
MaxBits == 3
BitLength == MaxBits
\* "m = l + 2", "t = m + 1"
MaskBits == BitLength + 2
TopBit == MaskBits + 1

RECURSIVE Pow2(_)
Pow2(k) == IF k = 0 THEN 1 ELSE 2 * Pow2(k - 1)

\* the smallest prime field with "2^(l+1) + 2^t < p"
Zp == CHOOSE p \in (Pow2(BitLength + 1) + Pow2(TopBit) + 1)..(2 * (Pow2(BitLength + 1) + Pow2(TopBit))) :
         IsPrime(p) /\ \A q \in (Pow2(BitLength + 1) + Pow2(TopBit) + 1)..(p - 1) : ~IsPrime(q)

ZpAdd(a, b) == (a + b) % Zp
ZpSub(a, b) == (a - b) % Zp
ZpMul(a, b) == (a * b) % Zp

\* multiplication by x modulo x^8 + x^4 + x^3 + x + 1
GF256Double(a) == IF 2 * a >= 256 THEN GF256Add(2 * a, 283) ELSE 2 * a

RECURSIVE GF256Mul(_, _)
GF256Mul(a, b) ==
    IF b = 0 THEN 0
    ELSE GF256Add(IF b % 2 = 1 THEN a ELSE 0, GF256Mul(GF256Double(a), b \div 2))

\* FieldElement.bit
Bit(value, index) == (value \div Pow2(index)) % 2

\* Runtime.xor_int and Runtime.xor_bit, on the values
xor_int_value(a, b) == ZpSub(ZpAdd(a, b), ZpMul(2, ZpMul(a, b)))
xor_bit(a, b) == GF256Add(a, b)

\* the inverse of a GF256 element
GF256Inv(a) == CHOOSE y \in 1..255 : GF256Mul(a, y) = 1

RECURSIVE GF256Share(_, _, _, _)
\* viff.shamir.share over GF256: the polynomial with the secret at 0 and
\* the coefficients coefs, at point x, from its k-th coefficient on
GF256Share(secret_, coefs, x, k) ==
    IF k > Len(coefs) THEN secret_
    ELSE GF256Add(secret_,
                  GF256Mul(x, GF256Share(coefs[k], coefs, x, k + 1)))

\* viff.shamir.recombine over GF256: Lagrange interpolation at 0
GF256Recombine(points) ==
    LET prod[i \in 1..Len(points), j \in 0..Len(points)] ==
            IF j = 0 THEN 1
            ELSE IF j = i THEN prod[i, j - 1]
            ELSE GF256Mul(prod[i, j - 1],
                          GF256Mul(points[j][1],
                                   GF256Inv(GF256Add(points[j][1], points[i][1]))))
        sum[i \in 0..Len(points)] ==
            IF i = 0 THEN 0
            ELSE GF256Add(sum[i - 1], GF256Mul(points[i][2], prod[i, Len(points)]))
    IN  sum[Len(points)]

RECURSIVE reduce_xor_int(_, _, _)
\* reduce(xor_int, shares, initial)
reduce_xor_int(shares, initial, i) ==
    IF i > Len(shares) THEN initial
    ELSE reduce_xor_int(shares, xor_int_value(initial, shares[i]), i + 1)

RECURSIVE reduce_xor_bit(_, _, _)
\* reduce(xor_bit, shares, initial)
reduce_xor_bit(shares, initial, i) ==
    IF i > Len(shares) THEN initial
    ELSE reduce_xor_bit(shares, xor_bit(initial, shares[i]), i + 1)

\* convert_bit_share returning the opened value, the mask not taken off
convert_bit_share_masked(share, bits) == reduce_xor_int(bits, share, 1) % 256

\* convert_bit_share from Zp to GF256; bits[j] is the bit player j draws with
\* rand.randint(0, 1) and shares in both fields
convert_bit_share(share, bits) ==
    LET tmp == reduce_xor_int(bits, share, 1)
    IN  reduce_xor_bit(bits, tmp % 256, 1)

\* convert_bit_share from GF256 to Zp
convert_bit_share_to_Zp(share, bits) ==
    LET tmp == reduce_xor_bit(bits, share, 1)
    IN  reduce_xor_int(bits, tmp % Zp, 1)

\* bits_to_int
RECURSIVE bits_to_int(_, _)
bits_to_int(bits, i) ==
    IF i > Len(bits) THEN 0 ELSE Pow2(i - 1) * bits[i] + bits_to_int(bits, i + 1)

\* the diamond operator with its operands exchanged
_diamond_exchanged(a, b) ==
    <<GF256Mul(b[1], a[1]),
      xor_bit(GF256Mul(a[1], xor_bit(b[2], a[2])), a[2])>>

\* Runtime._diamond
_diamond(a, b) ==
    <<GF256Mul(a[1], b[1]),
      xor_bit(GF256Mul(b[1], xor_bit(a[2], b[2])), b[2])>>

RECURSIVE diamond_round(_)
\* the inner loop of _finish_greater_than: the pairs of neighbours combined
diamond_round(vec) ==
    IF Len(vec) > 1
    THEN <<_diamond(vec[1], vec[2])>> \o diamond_round(SubSeq(vec, 3, Len(vec)))
    ELSE vec

RECURSIVE diamond_reduce(_)
\* the outer loop of _finish_greater_than
diamond_reduce(vec) == IF Len(vec) > 1 THEN diamond_reduce(diamond_round(vec)) ELSE vec

\* Runtime._finish_greater_than
_finish_greater_than(T, bit_bits, l) ==
    LET vec == <<<<0, 0>>>> \o
               [i \in 1..l |-> <<xor_bit(bit_bits[i], Bit(T, i - 1)), Bit(T, i - 1)>>]
    IN  xor_bit(Bit(T, l), xor_bit(bit_bits[l + 1], diamond_reduce(vec)[1][2]))

\* the value greater_than opens as T
greater_than_T(a, b, int_bits) ==
    ZpAdd(ZpSub(Pow2(TopBit), bits_to_int(int_bits, 1)),
          ZpAdd(ZpSub(a, b), Pow2(BitLength)))

\* the largest prime that is at most top: a field too small by the least
LargestPrime(top) == CHOOSE p \in 2..top : IsPrime(p) /\ \A q \in (p + 1)..top : ~IsPrime(q)

\* greater_than with no assertions
greater_than_asserts_none(modulus) == TRUE

\* the assertions of greater_than: "2^(l+1) + 2^t < p must hold" and
\* "len(self.players) + 2 < 2**l"
greater_than_asserts(modulus) ==
    /\ Pow2(BitLength + 1) + Pow2(TopBit) < modulus
    /\ MaxPlayers + 2 < Pow2(BitLength)

\* exchanges counts the steps taken that exchange shares: the draws of
\* random bits, the opens, the multiplications
InitCmp ==
    /\ Idle
    /\ \E a, b \in 0..(Pow2(BitLength) - 1) :
       \E modulus \in {Zp, LargestPrime(Pow2(BitLength + 1) + Pow2(TopBit))} :
         call = [op |-> "greater_than", stage |-> "preprocessing", a |-> a, b |-> b,
                 field |-> modulus, exchanges |-> 0,
                 int_bits |-> <<>>, bit_bits |-> <<>>, T |-> 0, result |-> 0]

\* An assertion of greater_than fails: the call raises AssertionError.
AssertCmp ==
    /\ call.op = "greater_than" /\ call.stage = "preprocessing"
    /\ call.int_bits = <<>>
    /\ ~greater_than_asserts(call.field)
    /\ call' = [call EXCEPT !.stage = "failed"]
    /\ IdleUnchanged

\* One of the m bits of the preprocessing: prss_share_random draws a bit
\* shared in Zp, which convert_bit_share converts with the bits the
\* players draw.
Preprocess ==
    /\ call.op = "greater_than" /\ call.stage = "preprocessing"
    /\ greater_than_asserts(call.field)
    /\ Len(call.int_bits) < MaskBits
    /\ \E bit \in {0, 1} : \E bits \in [1..MaxPlayers -> {0, 1}] :
         call' = [call EXCEPT !.int_bits = Append(@, bit),
                              !.exchanges = @ + 1,
                              !.bit_bits = Append(@, convert_bit_share(bit, bits))]
    /\ IdleUnchanged

\* T is opened.
OpenT ==
    /\ call.op = "greater_than" /\ call.stage = "preprocessing"
    /\ Len(call.int_bits) = MaskBits
    /\ call' = [call EXCEPT !.stage = "opened", !.exchanges = @ + 1,
                            !.T = greater_than_T(call.a, call.b, call.int_bits)]
    /\ IdleUnchanged

\* The callback of the result runs.
Finish_greater_than ==
    /\ call.op = "greater_than" /\ call.stage = "opened"
    /\ call' = [call EXCEPT !.stage = "done",
                            !.result = _finish_greater_than(call.T, call.bit_bits, BitLength)]
    /\ IdleUnchanged

NextCmp == AssertCmp \/ Preprocess \/ OpenT \/ Finish_greater_than

SpecCmp == InitCmp /\ [][NextCmp]_vars

(***************************************************************************)
(* convert_bit_share on its own, in both directions, for both bits and for *)
(* every choice of the bits that the players draw.                         *)
(***************************************************************************)
InitConvert ==
    /\ Idle
    /\ \E src \in {"Zp", "GF256"} : \E bit \in {0, 1} :
       \E bits \in [1..MaxPlayers -> {0, 1}] :
         call = [op |-> "convert_bit_share", stage |-> "shared", src_field |-> src,
                 share |-> bit, bits |-> bits, tmp |-> 0, opened |-> 0, result |-> 0]

\* "reduce(xor, src_shares, share)": the bits are XORed in, in the source
\* field
MaskShare ==
    /\ call.op = "convert_bit_share" /\ call.stage = "shared"
    /\ call' = [call EXCEPT !.stage = "masked",
                  !.tmp = IF call.src_field = "GF256"
                          THEN reduce_xor_bit(call.bits, call.share, 1)
                          ELSE reduce_xor_int(call.bits, call.share, 1)]
    /\ IdleUnchanged

\* tmp is opened: "lambda i: dst_field(i.value)"
OpenMasked ==
    /\ call.op = "convert_bit_share" /\ call.stage = "masked"
    /\ call' = [call EXCEPT !.stage = "opened",
                  !.opened = IF call.src_field = "GF256" THEN call.tmp % Zp
                             ELSE call.tmp % 256]
    /\ IdleUnchanged

\* "return reduce(xor, dst_shares, tmp)"
Converted ==
    /\ call.op = "convert_bit_share" /\ call.stage = "opened"
    /\ call' = [call EXCEPT !.stage = "done",
                  !.result = IF call.src_field = "GF256"
                             THEN convert_bit_share_to_Zp(call.share, call.bits)
                             ELSE convert_bit_share(call.share, call.bits)]
    /\ IdleUnchanged

NextConvert == MaskShare \/ OpenMasked \/ Converted

SpecConvert == InitConvert /\ [][NextConvert]_vars

(***************************************************************************)
(* The reduction of _finish_greater_than on its own, for every vector of   *)
(* up to MaxVec pairs of bits: the inner loop combines the two first       *)
(* elements of vec into tmp, the outer loop makes tmp the new vec.         *)
(***************************************************************************)
\* bound of the model: the length of the vector
MaxVec == 5

BitPairs == {<<x, X>> : x \in {0, 1}, X \in {0, 1}}

\* _diamond calling mul for its top element only
_diamond_muls_top(a, b) == <<<<a[1], b[1]>>>>

\* the calls of self.mul that _diamond makes: their operands
_diamond_muls(a, b) == <<<<a[1], b[1]>>, <<b[1], xor_bit(a[2], b[2])>>>>

\* the inner loop appending the left-over element first
EndOfRound_left_over_first(vec, tmp) == vec \o tmp

\* "if len(vec) == 1: tmp.append(vec[0])" and "vec = tmp"
EndOfRound(vec, tmp) == tmp \o vec

InitDiamond ==
    /\ Idle
    /\ \E n \in 1..MaxVec : \E vec \in [1..n -> BitPairs] :
         call = [op |-> "_finish_greater_than", stage |-> "reduce", given |-> vec,
                 vec |-> vec, tmp |-> <<>>, rounds |-> 0, steps |-> 0, muls |-> <<>>]

\* "tmp.append(self._diamond(vec.pop(0), vec.pop(0)))"
Combine ==
    /\ call.op = "_finish_greater_than" /\ call.stage = "reduce"
    /\ Len(call.vec) > 1
    /\ call' = [call EXCEPT !.tmp = Append(@, _diamond(call.vec[1], call.vec[2])),
                            !.vec = SubSeq(@, 3, Len(@)),
                            !.steps = @ + 1,
                            !.muls = @ \o _diamond_muls(call.vec[1], call.vec[2])]
    /\ IdleUnchanged

\* the inner loop has ended: a left-over element goes last, tmp is the new
\* vec
EndRound ==
    /\ call.op = "_finish_greater_than" /\ call.stage = "reduce"
    /\ Len(call.vec) <= 1 /\ call.tmp # <<>>
    /\ call' = [call EXCEPT !.vec = EndOfRound(call.vec, call.tmp),
                            !.tmp = <<>>,
                            !.rounds = @ + 1]
    /\ IdleUnchanged

\* the outer loop has ended: vec[0] is used
Reduced ==
    /\ call.op = "_finish_greater_than" /\ call.stage = "reduce"
    /\ Len(call.vec) = 1 /\ call.tmp = <<>>
    /\ call' = [call EXCEPT !.stage = "done"]
    /\ IdleUnchanged

NextDiamond == Combine \/ EndRound \/ Reduced

SpecDiamond == InitDiamond /\ [][NextDiamond]_vars

(***************************************************************************)
(* The second comparison, greater_thanII, on the values that the Shares    *)
(* share, with field and smallField the same field as greater_thanII       *)
(* calls it.                                                               *)
(***************************************************************************)
\* bounds of the model: the security parameter k, and the largest value of
\* the random elements drawn (the masks of convert_bit_share_II and the
\* mask of the preprocessing)
MaxSecurity == 1
MaxMask == 2
SecurityBits == MaxSecurity
\* "l += 1"
BitLengthII == BitLength + 1

\* the smallest prime field with "field.modulus > 2**(l+2) + 2**(l+k)"
ZpII == CHOOSE p \in (Pow2(BitLengthII + 2) + Pow2(BitLengthII + SecurityBits) + 1)
                     ..(2 * (Pow2(BitLengthII + 2) + Pow2(BitLengthII + SecurityBits))) :
          /\ IsPrime(p)
          /\ \A q \in (Pow2(BitLengthII + 2) + Pow2(BitLengthII + SecurityBits) + 1)..(p - 1) :
                ~IsPrime(q)

IIAdd(a, b) == (a + b) % ZpII
IISub(a, b) == (a - b) % ZpII
IIMul(a, b) == (a * b) % ZpII
\* ~x: the inverse (of 0, 0)
IIInv(a) == IF a % ZpII = 0 THEN 0 ELSE CHOOSE y \in 1..(ZpII - 1) : (a * y) % ZpII = 1
\* xor_int in the field of greater_thanII
IIXor(a, b) == IISub(IIAdd(a, b), IIMul(2, IIMul(a, b)))

RECURSIVE reduce_add(_, _, _)
\* reduce(self.add, shares, initial)
reduce_add(shares, initial, i) ==
    IF i > Len(shares) THEN initial
    ELSE reduce_add(shares, IIAdd(initial, shares[i]), i + 1)

\* convert_bit_share_II between the same fields; masks[j] is this_mask of
\* player j
convert_bit_share_II(share, masks) ==
    IISub(reduce_add(masks, share, 1) % ZpII, reduce_add(masks, 0, 1))

RECURSIVE bits_to_field(_, _, _)
\* "r = self.add(r, self.mul(b, field(2**i)))" over the first n bits
bits_to_field(bits, n, i) ==
    IF i > n THEN 0
    ELSE IIAdd(IIMul(bits[i], Pow2(i - 1) % ZpII), bits_to_field(bits, n, i + 1))

RECURSIVE sumXORs(_, _, _, _)
\* "sumXORs[i] = sumXORs[i+1] + r_bits[i+1] xor c_bits[i+1]", sumXORs[l-1]
\* = 0; i counts from 0 as in the code
sumXORs(r_bits, c, l, i) ==
    IF i >= l - 1 THEN 0
    ELSE IIAdd(sumXORs(r_bits, c, l, i + 1), IIXor(r_bits[i + 2], Bit(c, i + 1)))

\* the list E_tilde: the e_i and the mask
E_tilde(c, l, s_sign, mask, r_bits) ==
    [i \in 1..l |->
        IIAdd(IIAdd(s_sign, IISub(r_bits[i], Bit(c, i - 1))),
              IIMul(3, sumXORs(r_bits, c, l, i - 1)))] \o <<mask>>

RECURSIVE mul_all(_)
\* "while len(E_tilde) > 1: E_tilde.append(mul(E_tilde.pop(0), E_tilde.pop(0)))"
mul_all(E) ==
    IF Len(E) > 1
    THEN mul_all(Append(SubSeq(E, 3, Len(E)), IIMul(E[1], E[2])))
    ELSE E

\* Runtime._finish_greater_thanII
_finish_greater_thanII(c, l, s_bit, s_sign, mask, r_modl, r_bits, z) ==
    LET non_zero == IF mul_all(E_tilde(c, l, s_sign, mask, r_bits))[1] # 0 THEN 1 ELSE 0
        UF       == IIXor(non_zero, s_bit)
        c_mod2l  == (c % Pow2(l)) % ZpII
        result   == IIAdd(IISub(c_mod2l, r_modl), IIMul(UF, Pow2(l) % ZpII))
    IN  IIMul(IISub(z, result), IIInv(Pow2(l)))

\* greater_thanII_online: "a = 2a+1; b = 2b", z = a - b + 2**l
greater_thanII_z(a, b) ==
    IIAdd(IISub(IIAdd(IIMul(2, a), 1), IIMul(2, b)), Pow2(BitLengthII) % ZpII)

\* greater_thanII_preproc with no assertions
greater_thanII_preproc_asserts_none(modulus, small) == TRUE

\* the assertions of greater_thanII_preproc: "Field too small" and
\* "smallField too small"
greater_thanII_preproc_asserts(modulus, small) ==
    /\ modulus > Pow2(BitLengthII + 2) + Pow2(BitLengthII + SecurityBits)
    /\ small > 3 + 3 * BitLengthII

\* the fields of the call: the one of greater_thanII for both, or a field
\* or a smallField too small
FieldsII ==
    {<<ZpII, ZpII>>, <<ZpII, LargestPrime(3 + 3 * BitLengthII)>>,
     <<LargestPrime(Pow2(BitLengthII + 2) + Pow2(BitLengthII + SecurityBits)), ZpII>>}

InitCmpII ==
    /\ Idle
    /\ \E a, b \in 0..(Pow2(BitLength) - 1) : \E f \in FieldsII :
         call = [op |-> "greater_thanII", stage |-> "bits", a |-> a, b |-> b,
                 field |-> f[1], smallField |-> f[2], exchanges |-> 0,
                 r_bits |-> <<>>, s_bit |-> 0, s_sign |-> 0, mask |-> 0,
                 mask_2 |-> 0, mask_OK |-> 0,
                 z |-> 0, c |-> 0, result |-> 0]

\* greater_thanII_preproc: one of the l + k random bits r_bitsField
PreprocBitII ==
    /\ call.op = "greater_thanII" /\ call.stage = "bits"
    /\ greater_thanII_preproc_asserts(call.field, call.smallField)
    /\ Len(call.r_bits) < BitLengthII + SecurityBits
    /\ \E bit \in {0, 1} :
         call' = [call EXCEPT !.r_bits = Append(@, bit), !.exchanges = @ + 1]
    /\ IdleUnchanged

\* An assertion of greater_thanII_preproc fails: the call raises
\* AssertionError.
AssertII ==
    /\ call.op = "greater_thanII" /\ call.stage = "bits"
    /\ call.r_bits = <<>>
    /\ ~greater_thanII_preproc_asserts(call.field, call.smallField)
    /\ call' = [call EXCEPT !.stage = "failed"]
    /\ IdleUnchanged

\* greater_thanII_preproc: s_bit, converted with the masks of the players,
\* s_sign, the random elements mask and mask_2 and their opened product
\* mask_OK, which nothing reads
PreprocSignII ==
    /\ call.op = "greater_thanII" /\ call.stage = "bits"
    /\ Len(call.r_bits) = BitLengthII + SecurityBits
    /\ \E s_bit \in {0, 1} : \E masks \in [1..MaxPlayers -> {0, MaxMask}] :
       \E mask, mask_2 \in 0..MaxMask :
         call' = [call EXCEPT
                    !.stage = "preprocessed", !.s_bit = s_bit, !.exchanges = @ + 1,
                    !.s_sign = IIAdd(1, IIMul(convert_bit_share_II(s_bit, masks),
                                              (0 - 2) % ZpII)),
                    !.mask = mask, !.mask_2 = mask_2,
                    !.mask_OK = IIMul(mask, mask_2)]
    /\ IdleUnchanged

\* greater_thanII_online: c is opened
OnlineII ==
    /\ call.op = "greater_thanII" /\ call.stage = "preprocessed"
    /\ call' = [call EXCEPT
                  !.stage = "opened", !.exchanges = @ + 1,
                  !.z = greater_thanII_z(call.a, call.b),
                  !.c = IIAdd(bits_to_field(call.r_bits, BitLengthII + SecurityBits, 1),
                              greater_thanII_z(call.a, call.b))]
    /\ IdleUnchanged

\* the callback _finish_greater_thanII runs
FinishII ==
    /\ call.op = "greater_thanII" /\ call.stage = "opened"
    /\ call' = [call EXCEPT
                  !.stage = "done",
                  !.result = _finish_greater_thanII(
                                call.c, BitLengthII, call.s_bit, call.s_sign, call.mask,
                                bits_to_field(call.r_bits, BitLengthII, 1),
                                SubSeq(call.r_bits, 1, BitLengthII), call.z)]
    /\ IdleUnchanged

NextCmpII == AssertII \/ PreprocBitII \/ PreprocSignII \/ OnlineII \/ FinishII

SpecCmpII == InitCmpII /\ [][NextCmpII]_vars

\* The two comparisons, each called with a field that is large enough or
\* with one that is too small, on the least and the largest operands.
InitFieldSize ==
    /\ InitCmp \/ InitCmpII
    /\ call.a \in {0, Pow2(BitLength) - 1} /\ call.b \in {0, Pow2(BitLength) - 1}

NextFieldSize == NextCmp \/ NextCmpII

SpecFieldSize == InitFieldSize /\ [][NextFieldSize]_vars


(***************************************************************************)
(* The authenticated runtime (src/viff/bedoza.py): open, as one receiver   *)
(* sees it.  Every player sends its share and the authentication code the  *)
(* receiver can check; what is sent may be changed on the way.             *)
(***************************************************************************)

\* KeyLoader.load_keys, in the field of the model
load_keys ==
    <<[alpha |-> 2 % Modulus, keys |-> <<1 % Modulus, 2 % Modulus, 3 % Modulus>>],
      [alpha |-> 3 % Modulus, keys |-> <<4 % Modulus, 5 % Modulus, 6 % Modulus>>],
      [alpha |-> 4 % Modulus, keys |-> <<7 % Modulus, 8 % Modulus, 9 % Modulus>>]>>

BedozaPlayers == DOMAIN load_keys

\* BeDOZaRuntime.MAC
MAC(alpha, beta, v) == FAdd(FMul(alpha, v), beta)

\* RandomShareGenerator.authentication_codes
authentication_codes(keys, v) ==
    [k \in DOMAIN keys |-> FAdd(FMul(keys[k][1], v), keys[k][2])]

\* RandomShareGenerator.generate_auth_codes
generate_auth_codes(playerId, value) ==
    authentication_codes([k \in BedozaPlayers |->
                             <<load_keys[k].alpha, load_keys[k].keys[playerId]>>], value)

\* the exception raised by recombine_value
BeDOZaException == [t |-> "failure", v |-> "BeDOZaException"]

\* the loop of recombine_value from index inx on
RECURSIVE recombine_loop(_, _, _, _, _)
recombine_loop(shares_codes, keyList, inx, x, isOK) ==
    LET n == Len(shares_codes) \div 2 IN
    IF inx > n THEN <<x, isOK>>
    ELSE recombine_loop(shares_codes, keyList, inx + 1, FAdd(x, shares_codes[inx]),
             isOK /\ shares_codes[n + inx]
                       = MAC(keyList.alpha, keyList.keys[inx], shares_codes[inx]))

\* recombine_value without the check of the codes
recombine_value_unchecked(shares_codes, keyList) ==
    FE(recombine_loop(shares_codes, keyList, 1, 0, TRUE)[1])

\* recombine_value of open
recombine_value(shares_codes, keyList) ==
    Then(recombine_loop(shares_codes, keyList, 1, 0, TRUE), LAMBDA l :
         IF ~l[2] THEN BeDOZaException ELSE FE(l[1]))

\* Runtime.error_handler of the runtime bedoza.py is written for: the
\* failure is reported and passed on
error_handler(failure) == failure

InitBedoza ==
    /\ Idle
    /\ \E id \in BedozaPlayers :
         call = [op |-> "open", stage |-> "exchange", id |-> id,
                 values |-> [i \in BedozaPlayers |-> NoneV],
                 codes |-> [i \in BedozaPlayers |-> NoneV],
                 result |-> NoneV]

\* exchange of player other_id: its share xi and the code of it for the
\* receiver are sent
exchange(other_id) ==
    /\ call.op = "open" /\ call.stage = "exchange"
    /\ call.values[other_id] = NoneV
    /\ \E xi \in Field :
         call' = [call EXCEPT !.values[other_id] = FE(xi),
                              !.codes[other_id] =
                                  FE(generate_auth_codes(other_id, xi)[call.id])]
    /\ IdleUnchanged

\* the share or the code that player other_id has sent is changed on its way
Tamper(other_id) ==
    /\ call.op = "open" /\ call.stage = "exchange"
    /\ call.values[other_id] # NoneV
    /\ \E v \in Field :
         \/ call' = [call EXCEPT !.values[other_id] = FE(v)]
         \/ call' = [call EXCEPT !.codes[other_id] = FE(v)]
    /\ IdleUnchanged

\* all the shares and codes have arrived: gatherResults(values + codes)
\* fires, recombine_value runs, and its failure goes through the errback
\* of the result
Recombine ==
    /\ call.op = "open" /\ call.stage = "exchange"
    /\ \A i \in BedozaPlayers : call.values[i] # NoneV
    /\ call' = [call EXCEPT !.stage = "done",
                  !.result = Then(recombine_value(
                                    [k \in 1..(2 * Len(load_keys)) |->
                                        IF k <= Len(load_keys) THEN call.values[k].v
                                        ELSE call.codes[k - Len(load_keys)].v],
                                    load_keys[call.id]),
                                  LAMBDA r : IF r.t = "failure" THEN error_handler(r)
                                             ELSE r)]
    /\ IdleUnchanged

NextBedoza ==
    \/ \E i \in BedozaPlayers : exchange(i)
    \/ \E i \in BedozaPlayers : Tamper(i)
    \/ Recombine

SpecBedoza == InitBedoza /\ [][NextBedoza]_vars


(***************************************************************************)
(* What the claims speak of.                                               *)
(***************************************************************************)
\* the Deferred that variable v of player i holds
VarD(i, v) == rt[i].ds[env[i][v].v]

\* variable v of player i holds a Share that has its final value: it has
\* fired and no callback of it is waiting
Resolved(i, v) ==
    /\ env[i][v].t = "dref"
    /\ VarD(i, v).called /\ VarD(i, v).paused = 0 /\ VarD(i, v).cbs = <<>>

Value(i, v) == VarD(i, v).result

\* nothing is left to happen
Quiescent ==
    /\ \A i \in Players : ip[i] = 1 /\ rt[i].later = <<>>
    /\ \A i, j \in Players : chan[i][j] = <<>>
    /\ \A i \in Players : \A v \in InputNames : rt[i].ds[InputIndex(v)].called

\* the statement that assigns variable v
HasStmt(op, v) == \E n \in 1..Len(prog.stmts) : prog.stmts[n].op = op /\ prog.stmts[n].out = v

NoError == \A i \in Players : rt[i].err = {}


StmtIndex(v) == CHOOSE k \in 1..Len(prog.stmts) : prog.stmts[k].out = v

\* The tag of the exchange of a statement, from its place in the program:
\* statement k runs at [k, 0]; open sends there, mul sends from the
\* _shamir_share of its first callback, xor_int from that of its mul.
ExpectedTag(lbl) ==
    LET k  == StmtIndex(lbl[1])
        op == prog.stmts[k].op
    IN  CASE op \in {"open", "open_n"} -> <<k, 0>>
          [] op = "mul"     -> <<k, 1, 0>>
          [] op = "xor_int" -> <<k, 1, 1, 0>>

Bump(pc) == [pc EXCEPT ![Len(pc)] = @ + 1]

\* the counter-advancing calls the body of a decorated method makes itself
NestedCalls(op) == IF op = "xor_int" THEN 1 ELSE 0

\* the field element of the result of a Share got from _exchange_shares
ShareValue(result) == IF result.t = "pair" THEN result.v[2] ELSE result.v

OperandReady(i, v) == env[i][v].t = "fe" \/ Resolved(i, v)
OperandValue(i, v) == IF env[i][v].t = "fe" THEN env[i][v].v ELSE Value(i, v).v

(***************************************************************************)
(* The claims.                                                             *)
(***************************************************************************)
\* C1: all players running the same program, in every order of message
\* arrivals and callback firings every player sends the shares of one
\* logical operation (the exchange of one statement) under the same
\* program counter.
C1_SameTagAtEveryPlayer ==
    \A i, j \in Players : \A m1 \in rt[i].sent : \A m2 \in rt[j].sent :
        m1.lbl = m2.lbl => m1.pc = m2.pc

\* C1 witness: two players have started the two opens in opposite orders.
C1_Witness ==
    /\ prog = ProgTwoOpens
    /\ \E m \in rt[1].sent : m.lbl = <<"x">>
    /\ ~\E m \in rt[1].sent : m.lbl = <<"r">>
    /\ \E m \in rt[2].sent : m.lbl = <<"r">>
    /\ ~\E m \in rt[2].sent : m.lbl = <<"x">>

\* C2: whatever the order in which the strings arrive at a player, every
\* share it sends carries the tag its statement has in the program and
\* every opened result resolves to the secret opened.
C2_ArrivalOrderIrrelevant ==
    \A i \in Players :
        /\ \A m \in rt[i].sent : m.pc = ExpectedTag(m.lbl)
        /\ \A k \in 1..Len(prog.stmts) :
             (prog.stmts[k].op = "open" /\ prog.stmts[k].x \in InputNames
                /\ Resolved(i, prog.stmts[k].out))
             => Value(i, prog.stmts[k].out) = FE(secret[prog.stmts[k].x])

\* C2 witness: player 1 awaits the strings of two opens from player 2; the
\* string of the second open has come first and its result is resolved,
\* the string of the first open has not come yet.
C2_Witness ==
    /\ prog = ProgTwoOpens
    /\ \E m \in rt[1].sent : m.lbl = <<"r">>
    /\ Resolved(1, "x") /\ ~Resolved(1, "r")
    /\ <<ExpectedTag(<<"x">>), 2>> \in rt[1].rcvd
    /\ <<ExpectedTag(<<"r">>), 2>> \notin rt[1].rcvd

\* C3 as stated: throughout the body of a decorated method the counter is
\* the counter before the call with its last element incremented and a 0
\* appended, and after the call it is the counter before with its last
\* element incremented.
C3_Original ==
    \A i \in Players : \A e \in rt[i].pclog :
        /\ e.entry = Append(Bump(e.before), 0)
        /\ e.last = Append(Bump(e.before), 0)
        /\ e.after = Bump(e.before)

\* C3 amended: the body of a decorated method starts with the counter
\* before the call, its last element incremented and a 0 appended; the
\* body changes only the appended element, which counts the
\* counter-advancing calls the body has made; after the call the counter is
\* the counter before with its last element incremented.
C3_FramePushedAndPopped ==
    \A i \in Players : \A e \in rt[i].pclog :
        /\ e.entry = Append(Bump(e.before), 0)
        /\ e.last = Append(Bump(e.before), NestedCalls(e.op))
        /\ e.after = Bump(e.before)

\* C3 witness: a decorated method whose body made a counter-advancing call
\* has returned.
C3_Witness ==
    \E i \in Players : \E e \in rt[i].pclog : e.op = "xor_int" /\ e.last # e.entry

\* C4: a callback added through Runtime.callback runs with the counter of
\* the time it was added, and when it has finished the counter is the one
\* that was current before it started.
C4_SavedAndRestored ==
    \A i \in Players : \A e \in rt[i].cblog :
        e.ran = e.reg /\ e.after = e.before

\* C4 witness: one player has run a callback after the counter had
\* advanced, and a callback in which an assertion failed.
C4_Witness ==
    \E i \in Players :
        /\ \E e \in rt[i].cblog : e.before # e.reg
        /\ "AssertionError" \in rt[i].err
        /\ \E e \in rt[i].cblog : e.k = "broadcast"
        /\ Resolved(i, "r") /\ Value(i, "r") = FailV

\* C5: the Share _exchange_shares returns for a tag and a peer resolves
\* with the value the peer sent under that tag: it is resolved when
\* returned if the string had arrived, and otherwise resolves when the
\* string has arrived and its delayed call has run.
C5_ExchangeMatches ==
    \A i \in Players : \A e \in rt[i].exch :
        LET D == rt[i].ds[e.d]
        IN  /\ D.called =>
                 \E m \in rt[e.peer].sent :
                     m.to = i /\ m.pc = e.pc /\ m.value = ShareValue(D.result)
            /\ e.arrived => e.called
            /\ ~e.arrived =>
                 (D.called <=> /\ <<e.pc, e.peer>> \in rt[i].rcvd
                               /\ \A n \in 1..Len(rt[i].later) :
                                      rt[i].later[n].d # e.d)

\* C5 witness: one player has met both orders: a string that had arrived
\* before the exchange and one delivered after.
C5_Witness ==
    \E i \in Players : \E e1, e2 \in rt[i].exch :
        e1.arrived /\ ~e2.arrived /\ rt[i].ds[e2.d].called

\* C8: the Share add or sub returns is resolved exactly when both operands
\* are, a plain field element counting as resolved, and then holds their
\* sum or difference.
C8_AddSubLocal ==
    \A i \in Players : ip[i] = 1 =>
        \A k \in 1..Len(prog.stmts) :
            LET s == prog.stmts[k]
            IN  s.op \in {"add", "sub"} =>
                  /\ Resolved(i, s.out) <=> (OperandReady(i, s.x) /\ OperandReady(i, s.y))
                  /\ Resolved(i, s.out) =>
                       Value(i, s.out) =
                         FE(IF s.op = "add"
                            THEN FAdd(OperandValue(i, s.x), OperandValue(i, s.y))
                            ELSE FSub(OperandValue(i, s.x), OperandValue(i, s.y)))

\* C8 witness: player 1 has its sum and difference; player 2, with b only,
\* has the sum of b and the plain element but not the sum of a and b.
C8_Witness ==
    /\ prog = ProgArith
    /\ Resolved(1, "x") /\ Resolved(1, "y")
    /\ ip[2] = 1 /\ Resolved(2, "r") /\ ~Resolved(2, "x")


RECURSIVE Val(_)
\* the value the program computes in variable v, from the secrets
Val(v) ==
    IF v \in InputNames THEN secret[v]
    ELSE LET s == prog.stmts[StmtIndex(v)]
         IN  CASE s.op = "open" -> Val(s.x)
               [] s.op = "mul"  -> FMul(Val(s.x), Val(s.y))
               [] s.op = "add"  -> FAdd(Val(s.x), Val(s.y))
               [] s.op = "sub"  -> FSub(Val(s.x), Val(s.y))
               [] s.op = "xor_int" ->
                    FSub(FAdd(Val(s.x), Val(s.y)), FMul(2, FMul(Val(s.x), Val(s.y))))

\* C6: every player having called open on its Shamir share of a secret,
\* the opened result of every player is the secret, for every secret and
\* every polynomial of the dealer, whether the input Share of a player was
\* resolved before open was called or only afterwards.
C6_OpenYieldsSecret ==
    \A i \in Players : \A k \in 1..Len(prog.stmts) :
        LET s == prog.stmts[k]
        IN  (s.op = "open" /\ s.x \in InputNames /\ Resolved(i, s.out))
            => Value(i, s.out) = FE(secret[s.x])

\* C6 witness: all players have the secret; the share of one player was
\* there when it called open, that of another came after its program ran.
C6_Witness ==
    /\ prog = ProgOpenLate
    /\ \A i \in Players : Resolved(i, "r") /\ Value(i, "r") = FE(secret["a"])
    /\ \E i, j \in Players :
         /\ \E e \in rt[i].cblog : e.k = "broadcast" /\ e.before = e.reg
         /\ \E e \in rt[j].cblog : e.k = "broadcast" /\ Len(e.before) < Len(e.reg)

\* C7: with n >= 2t+1 players, the Shares mul returns are a sharing of the
\* product with threshold t: any t+1 of them recombine to it, and
\* opening them yields the product at every player; so it is for the
\* product of a product.
C7_MulSharesProduct ==
    \A k \in 1..Len(prog.stmts) :
        LET s == prog.stmts[k]
        IN  /\ (s.op = "mul" /\ \A i \in Players : Resolved(i, s.out)) =>
                 \A i, j \in Players : i < j =>
                     shamir_recombine(<<<<i, Value(i, s.out).v>>,
                                        <<j, Value(j, s.out).v>>>>) = Val(s.out)
            /\ (s.op = "open" /\ s.x \notin InputNames) =>
                 \A i \in Players : Resolved(i, s.out) => Value(i, s.out) = FE(Val(s.x))

\* C7 witness: the chain of two multiplications has been opened by all
\* players, and the shares of the first product are not all the same.
C7_Witness ==
    /\ prog = ProgMulChain
    /\ N >= 2 * Threshold + 1
    /\ \A i \in Players : Resolved(i, "r") /\ Value(i, "r") = FE(Val("y"))
    /\ Value(1, "x") # Value(2, "x")
    /\ Val("y") = FMul(FMul(secret["a"], secret["b"]), secret["b"])


\* C9: for every secret, every threshold t and number of players n with
\* 0 < t < n and every polynomial drawn, recombine on any t + 1 of the n
\* shares that share made yields the secret.
C9_RecombineInvertsShare ==
    call.op = "recombine" => call.result = call.secret

\* C9 witness: a secret other than 0 shared with threshold 2 among 4
\* players by a polynomial of degree 2 and recombined from the shares of
\* players 2, 3 and 4.
C9_Witness ==
    /\ call.op = "recombine"
    /\ call.secret # 0 /\ call.threshold = 2 /\ call.n = 4
    /\ call.shares[1][2] # call.shares[2][2]
    /\ call.points = SubSeq(call.shares, 2, 4)
    /\ call.result = call.secret


\* C10: for all a and b of l bits and for every outcome of the random bits
\* of the preprocessing, the result of greater_than is the element 1 of
\* GF256 if a >= b and the element 0 otherwise.
C10_GreaterThan ==
    (call.op = "greater_than" /\ call.stage = "done")
    => call.result = (IF call.a >= call.b THEN 1 ELSE 0)

\* C10 witness: a < b ends in 0 for a mask with bits of both kinds and a
\* carry that runs through the low bits of T and the mask.
C10_Witness ==
    /\ call.op = "greater_than" /\ call.stage = "done"
    /\ 0 < call.a /\ call.a < call.b /\ call.result = 0
    /\ call.int_bits[1] = 1 /\ call.int_bits[2] = 0
    /\ Bit(call.T, 0) = 1 /\ Bit(call.T, 1) = 1


\* C11: for all a and b of l bits and every outcome of the random bits, of
\* the sign bit and of the masks of the preprocessing, the result of
\* greater_thanII is 1 if a >= b and 0 otherwise.
C11_GreaterThanII ==
    (call.op = "greater_thanII" /\ call.stage = "done")
    => call.result = (IF call.a >= call.b THEN 1 ELSE 0)

\* C11, for the outcomes in which the mask drawn is not 0 (not a statement
\* of the claim: what the comparison does compute)
C11_NonZeroMask ==
    (call.op = "greater_thanII" /\ call.stage = "done" /\ call.mask # 0)
    => call.result = (IF call.a >= call.b THEN 1 ELSE 0)


\* the exclusive or of two bits
XorOfBits(a, b) == IF a = b THEN 0 ELSE 1

\* the GF256 Shamir shares of player i of the bits a and b, under xor_bit
XorBitShare(i) ==
    xor_bit(GF256Share(secret["a"], dealer["a"], i, 1),
            GF256Share(secret["b"], dealer["b"], i, 1))

\* C12: for every pair of bits a, b: xor_bit is add, and the xor_bit of
\* GF256 sharings of a and b is a sharing that opens to a XOR b; xor_int
\* on sharings over the prime field makes exactly one multiplication, its
\* shares are a sharing of a + b - 2ab, and it opens to a XOR b.
C12_Xor ==
    (prog = ProgXorOpen /\ \A i \in Players : Resolved(i, "r")) =>
        /\ \A i \in Players :
             /\ Value(i, "r") = FE(XorOfBits(secret["a"], secret["b"]))
             /\ Cardinality({e \in rt[i].pclog : e.op = "mul"}) = 1
        /\ \A i, j \in Players : i < j =>
             shamir_recombine(<<<<i, Value(i, "x").v>>, <<j, Value(j, "x").v>>>>)
               = FSub(FAdd(secret["a"], secret["b"]),
                      FMul(2, FMul(secret["a"], secret["b"])))
        /\ \A i \in Players : XorBitShare(i) =
               GF256Add(GF256Share(secret["a"], dealer["a"], i, 1),
                        GF256Share(secret["b"], dealer["b"], i, 1))
        /\ GF256Recombine([i \in 1..(Threshold + 1) |-> <<i, XorBitShare(i)>>])
             = XorOfBits(secret["a"], secret["b"])

\* C12 witness: both bits are 1; all players opened the exclusive or, 0,
\* through one multiplication of shares that are not all the same.
C12_Witness ==
    /\ prog = ProgXorOpen
    /\ secret["a"] = 1 /\ secret["b"] = 1
    /\ \A i \in Players : Resolved(i, "r") /\ Value(i, "r") = FE(0)
    /\ \E e \in rt[1].pclog : e.op = "mul"
    /\ Value(1, "x") # Value(2, "x")
    /\ XorBitShare(1) # XorBitShare(2)


\* the Shares prss_share returned to player i
PrssShares(i) == env[i]["x"].v

\* all Shares that prss_share returned to the players are resolved
PrssDone ==
    /\ prog = ProgPrssShare
    /\ \A i \in Players :
         /\ env[i]["x"].t = "dlist"
         /\ \A j \in 1..Len(PrssShares(i)) :
              LET d == rt[i].ds[PrssShares(i)[j]]
              IN  d.called /\ d.paused = 0 /\ d.cbs = <<>>

\* the share of the element of player j that player i holds
PrssValue(i, j) == rt[i].ds[PrssShares(i)[j]].result.v

\* C13: all players having called prss_share at the same position, each
\* with its own element, every player holds one share per player, and any
\* threshold + 1 players' j-th shares recombine to the element of player j.
C13_PrssShare ==
    /\ \A i \in Players :
         (prog = ProgPrssShare /\ env[i]["x"].t = "dlist") => Len(PrssShares(i)) = N
    /\ PrssDone =>
         \A j \in Players : \A i, k \in Players : i < k =>
            shamir_recombine(<<<<i, PrssValue(i, j)>>, <<k, PrssValue(k, j)>>>>)
              = InputShare(j, "a")

\* C13 witness: the elements of the players differ, and so do the shares
\* the players hold of the element of player 1.
C13_Witness ==
    /\ PrssDone
    /\ InputShare(1, "a") # InputShare(2, "a")
    /\ PrssValue(1, 1) # PrssValue(2, 1)
    /\ \A i \in Players : \E e \in rt[i].pclog : e.op = "prss_share"
    /\ shamir_recombine(<<<<2, PrssValue(2, 3)>>, <<3, PrssValue(3, 3)>>>>)
         = InputShare(3, "a")


\* the value that the shares of the players in ids recombine to
RandomBit(ids) ==
    BRecombine(PickPoints([j \in 1..MaxPlayers |-> <<j, call.result[j]>>], ids, 1))

\* C14: all players having called prss_share_random with binary requested
\* at the same position, the shares they obtain recombine to 0 or to 1, and
\* to the same bit for every subset of more than threshold players.
C14_PrssRandomBit ==
    (call.op = "prss_share_random" /\ call.stage = "done") =>
        /\ RandomBit(1..MaxPlayers) \in {0, 1}
        /\ \A ids \in SUBSET (1..MaxPlayers) :
             Cardinality(ids) > Threshold => RandomBit(ids) = RandomBit(1..MaxPlayers)

\* C14 witness: after a draw whose square was 0 the draw made again gave
\* shares that are not all the same, of the bit 1.
C14_Witness ==
    /\ call.op = "prss_share_random" /\ call.stage = "done"
    /\ call.attempt = 2
    /\ call.result[1] # call.result[2]
    /\ RandomBit({1, 2}) = 1 /\ RandomBit({2, 3}) = 1


\* C15: in every run of honest players, under every order of arrival of
\* the messages and of resolution of the operands, no Share is resolved a
\* second time: Deferred.callback is never called on a Deferred that was
\* called, be it a Share of the table incoming_shares, a clone made by
\* open, a ShareList or a DeferredList.
C15_ResolvedOnce ==
    \A i \in Players : "AlreadyCalledError" \notin rt[i].err

\* C15 witness: xor_int has resolved at all players; at player 1 one Share
\* of incoming_shares was resolved by a string that came before the Share
\* was asked for, another by a string that came afterwards, and the
\* ShareLists of mul and of xor_int have fired.
C15_Witness ==
    /\ prog = ProgXor
    /\ \A i \in Players : Resolved(i, "x")
    /\ \E e \in rt[1].exch : e.peer # 1 /\ e.called
    /\ \E e \in rt[1].exch : e.peer # 1 /\ ~e.called /\ rt[1].ds[e.d].called
    /\ \E d \in 1..Len(rt[1].ds) :
         rt[1].ds[d].called /\ Len(rt[1].ds[d].results) = 3


\* C16: an entry of the table incoming_shares is removed once its Share is
\* resolved: for every key (program counter, peer), once the string of the
\* peer has arrived and _exchange_shares has been called for the key, in
\* either order, the table holds no entry for the key; the table is empty
\* when the run has completed.
C16_TableEmptied ==
    \A i \in Players :
        /\ \A key \in DOMAIN rt[i].incoming :
             ~(/\ key \in rt[i].rcvd
               /\ \E e \in rt[i].exch : e.pc = key[1] /\ e.peer = key[2])
        /\ Quiescent => DOMAIN rt[i].incoming = {}


\* the pairs (initiator, listener) of the connections made
Channels == {ch \in Players \X Players : call.tcp[ch[1]][ch[2]] > 0}

\* every Deferred protocols of every player has fired
ConnDone == \A i \in Players : AllUp(call, i)

\* C17: at startup no player connects to itself and at most one connection
\* is made per unordered pair of distinct players; no entry of protocols is
\* resolved twice; when all entries are resolved there is exactly one
\* connection for each pair, n(n-1)/2 in all, and each entry, that of the
\* player itself included, was resolved exactly once.
C17_OneChannelPerPair ==
    call.op = "connect" =>
        /\ \A a \in Players : call.tcp[a][a] = 0 /\ call.accepted[a][a] = 0
        /\ \A a, b \in Players : a # b => call.tcp[a][b] + call.tcp[b][a] <= 1
        /\ \A i, j \in Players : call.fired[i][j] <= 1
        /\ ConnDone =>
             /\ \A a, b \in Players : a # b => call.tcp[a][b] + call.tcp[b][a] = 1
             /\ 2 * Cardinality(Channels) = N * (N - 1)
             /\ \A i, j \in Players : call.fired[i][j] = 1

\* C17 witness: three players are connected by three channels, and open
\* has given its result to all of them.
C17_Witness ==
    /\ call.op = "connect" /\ prog = ProgOpenGiven
    /\ ConnDone
    /\ Cardinality(Channels) = 3
    /\ \A i \in Players : Resolved(i, "r")

\* C18 as claimed: for each pair of distinct players the lower-indexed
\* player listens and the higher-indexed player initiates the connection.
C18_Original ==
    call.op = "connect" =>
        \A a, b \in Players :
            (call.tcp[a][b] > 0 \/ call.accepted[a][b] > 0) => a > b

\* C18, amended: for each pair of distinct players the lower-indexed
\* player initiates the connection and the higher-indexed player accepts
\* it on its listening port.
C18_LowerInitiates ==
    call.op = "connect" =>
        \A a, b \in Players :
            /\ call.tcp[a][b] > 0 => a < b
            /\ call.accepted[a][b] > 0 => a < b /\ call.tcp[a][b] > 0

\* C18 witness: every pair is connected, and the higher player of each pair
\* has accepted the connection of the lower.
C18_Witness ==
    /\ call.op = "connect" /\ N = 3
    /\ \A a, b \in Players : a < b => call.tcp[a][b] = 1 /\ call.accepted[a][b] = 1
    /\ call.tcp[3][1] = 0 /\ call.tcp[2][1] = 0 /\ call.tcp[3][2] = 0

\* C19: the readiness of a player being that all its n-1 channels are
\* confirmed (all its Deferreds protocols have fired), no string is written
\* to a transport by a player that is not ready.
C19_NoSendBeforeReady ==
    call.op = "connect" => call.early = {}

\* C20: the strings of a player for a peer are written to the transport in
\* the order _exchange_shares issued them and received in that order; those
\* issued before protocols[peer] has fired wait, in that order, and none is
\* written before it has fired.
C20_SendOrder ==
    call.op = "connect" =>
        \A i, j \in Players :
            /\ call.issued[i][j] = call.wire[i][j] \o call.held[i][j]
            /\ call.wire[i][j] = call.dlv[i][j] \o chan[i][j]
            /\ call.held[i][j] # <<>> => call.fired[i][j] = 0
            /\ call.wire[i][j] # <<>> => call.fired[i][j] > 0 /\ Built(call, i, j)
            /\ call.released[i][j] <= Len(call.wire[i][j])

\* C20 witness: two strings of player 1 for player 2 waited for the channel
\* and were received in the order issued; two of player 2 for player 1 were
\* written at once.
C20_Witness ==
    /\ call.op = "connect" /\ prog = ProgTwoOpens
    /\ call.released[1][2] = 2 /\ Len(call.dlv[1][2]) = 2
    /\ call.dlv[1][2] = call.issued[1][2]
    /\ call.dlv[1][2][1] # call.dlv[1][2][2]
    /\ call.released[2][1] = 0 /\ Len(call.wire[2][1]) = 2

\* the strings of the open that assigns variable v which have come to
\* player i: the players they came from
Arrived(i, v) == {j \in Players : <<ExpectedTag(<<v>>), j>> \in rt[i].rcvd}

OpenStmts == {k \in 1..Len(prog.stmts) : prog.stmts[k].op = "open"}

\* C21 as stated: an open has its value at a player only when the share of
\* every other player has come: one peer that never sends its share keeps
\* the result from resolving at every other player.
C21_Original ==
    \A i \in Players : \A k \in OpenStmts :
        (Resolved(i, prog.stmts[k].out) /\ Value(i, prog.stmts[k].out).t = "fe")
        => \A j \in Players \ {i} : j \in Arrived(i, prog.stmts[k].out)

\* C21: there is no timeout: an open has its value at a player only when
\* the shares of players 1..threshold+1 have come to it (its own it keeps);
\* while one of these has not sent its share the result stays unresolved at
\* every other player.  A silent player beyond threshold+1 stalls nobody.
C21_NoTimeout ==
    \A i \in Players : \A k \in OpenStmts :
        (Resolved(i, prog.stmts[k].out) /\ Value(i, prog.stmts[k].out).t = "fe")
        => \A j \in (1..(Threshold + 1)) \ {i} : j \in Arrived(i, prog.stmts[k].out)

\* C21 witness: player 1 has not sent; players 2 and 3 have sent and have
\* each other's share, and neither has its result.  (With player 3 silent
\* instead, players 1 and 2 have theirs: C21_SilentLast.)
C21_Witness ==
    /\ prog = ProgOpen
    /\ rt[1].sent = {} /\ rt[2].sent # {} /\ rt[3].sent # {}
    /\ 3 \in Arrived(2, "r") /\ 2 \in Arrived(3, "r")
    /\ rt[2].later = <<>> /\ rt[3].later = <<>>
    /\ ~Resolved(2, "r") /\ ~Resolved(3, "r")

C21_SilentLast ==
    /\ prog = ProgOpen
    /\ rt[3].sent = {}
    /\ Resolved(1, "r") /\ Resolved(2, "r")
    /\ Value(1, "r") = FE(secret["a"]) /\ Value(2, "r") = FE(secret["a"])


\* the players whose share of the open that assigns v player i has: those
\* whose string has come and, once its broadcast has run, itself
Available(i, v) ==
    Arrived(i, v) \cup {j \in {i} : \E m \in rt[i].sent : m.lbl = <<v>>}

\* C22: an open has its result at a player as soon as that player has the
\* shares of any threshold+1 players, its own among them, whichever
\* players they are.
C22_AnyThresholdPlusOne ==
    \A i \in Players : \A k \in OpenStmts :
        (/\ i \in Available(i, prog.stmts[k].out)
         /\ Cardinality(Available(i, prog.stmts[k].out)) >= Threshold + 1
         /\ rt[i].later = <<>>)
        => Resolved(i, prog.stmts[k].out)

\* what the code does instead: the result is there exactly when the shares
\* of players 1..threshold+1 are, in player order
C22_FirstInPlayerOrder ==
    \A i \in Players : \A k \in OpenStmts :
        (i \in Available(i, prog.stmts[k].out) /\ rt[i].later = <<>>)
        => (Resolved(i, prog.stmts[k].out)
              <=> (1..(Threshold + 1)) \subseteq Available(i, prog.stmts[k].out))


\* the statements whose reconstruction is from at most threshold shares:
\* open with a threshold of n or more, mul among n <= 2t players
TooFewStmts ==
    {k \in 1..Len(prog.stmts) :
       \/ prog.stmts[k].op = "open_n"
       \/ prog.stmts[k].op = "mul" /\ N <= 2 * Threshold}

\* C23: a reconstruction from a list of at most threshold shares fails with
\* an error and yields no value: the result of such an open or mul, once
\* it has fired, is a failure, the assertion of _recombine is the error,
\* and it never holds a field element, right or wrong.
C23_TooFewSharesFail ==
    \A i \in Players : \A k \in TooFewStmts :
        /\ Resolved(i, prog.stmts[k].out) =>
             /\ Value(i, prog.stmts[k].out) = FailV
             /\ "AssertionError" \in rt[i].err
        /\ env[i][prog.stmts[k].out].t = "dref" =>
             VarD(i, prog.stmts[k].out).result.t # "fe"

\* C23 witness: mul among 2 players with threshold 1 has ended failed at
\* player 1, after the shares of the products were exchanged.
C23_Witness ==
    /\ prog = ProgMulTwo
    /\ Resolved(1, "x") /\ Value(1, "x") = FailV
    /\ rt[1].sent # {} /\ rt[1].rcvd # {}

C23_WitnessOpen ==
    /\ prog = ProgOpenAll
    /\ Resolved(2, "r") /\ Value(2, "r") = FailV


\* the random element that the shares of the draw with this key are of
RandomValue(key) ==
    shamir_recombine([p \in 1..(Threshold + 1) |-> <<p, prss(p, prfs(p), key)>>])

\* C24: in a binary prss_share_random draw over a prime field, a draw whose
\* opened square is zero is followed by a whole new draw under a new key,
\* the program counter of the new call, and no error shows; a draw is
\* repeated only for that reason, and the Share returned resolves only from
\* a draw whose square was not zero, to the player's share of that draw
\* divided by the root, plus 1, halved.
C24_RetryOnZeroSquare ==
    prog = ProgPrssRandomBinary =>
    \A i \in Players :
        /\ rt[i].err = {}
        /\ \A m, n \in 1..Len(rt[i].prss_keys) :
             m # n => rt[i].prss_keys[m] # rt[i].prss_keys[n]
        /\ \A n \in 1..(Len(rt[i].prss_keys) - 1) : RandomValue(rt[i].prss_keys[n]) = 0
        /\ Resolved(i, "x") =>
             Then(rt[i].prss_keys[Len(rt[i].prss_keys)], LAMBDA key :
                  /\ RandomValue(key) # 0
                  /\ Value(i, "x") =
                       FE(FMul(FAdd(FMul(prss(i, prfs(i), key),
                                         FInv(FSqrt(FMul(RandomValue(key),
                                                         RandomValue(key))))),
                                    1),
                               FInv(2))))

\* C24 witness: the first square opened was zero; player 1 has its share
\* from the second draw.
C24_Witness ==
    /\ prog = ProgPrssRandomBinary
    /\ Resolved(1, "x") /\ Value(1, "x").t = "fe"
    /\ Len(rt[1].prss_keys) = 2
    /\ RandomValue(rt[1].prss_keys[1]) = 0


\* the strings player i has sent in the call that assigns variable v
SentFor(i, v) == {m \in rt[i].sent : m.lbl = <<v>>}

\* C29: prss_share_random without binary sends no string and adds no entry
\* to the table of expected shares; with binary, over a prime field, all
\* it communicates is one open for each draw: one string from each player
\* to each other player, under one tag.
C29_RandomCommunication ==
    \A i \in Players :
        /\ prog = ProgPrssRandom =>
             /\ SentFor(i, "x") = {}
             /\ \A e \in rt[i].exch : e.pc[1] # StmtIndex("x")
        /\ prog = ProgPrssRandomBinary =>
             /\ Cardinality(SentFor(i, "x")) <= (N - 1) * Len(rt[i].prss_keys)
             /\ Cardinality({m.pc : m \in SentFor(i, "x")}) <= Len(rt[i].prss_keys)

\* what the code does: nothing without binary; with binary the strings of a
\* mul and of an open for each draw, all of them once everything has run
C29_MulAndOpen ==
    \A i \in Players :
        /\ prog = ProgPrssRandom =>
             /\ SentFor(i, "x") = {}
             /\ \A e \in rt[i].exch : e.pc[1] # StmtIndex("x")
        /\ prog = ProgPrssRandomBinary =>
             /\ Cardinality(SentFor(i, "x")) <= 2 * (N - 1) * Len(rt[i].prss_keys)
             /\ Cardinality({m.pc : m \in SentFor(i, "x")}) <= 2 * Len(rt[i].prss_keys)
             /\ Resolved(i, "x") =>
                  Cardinality(SentFor(i, "x")) = 2 * (N - 1) * Len(rt[i].prss_keys)

C29_NonBinaryRan ==
    /\ prog = ProgPrssRandom
    /\ \A i \in Players : Resolved(i, "x") /\ Resolved(i, "r")


\* C25: the preprocessing of greater_thanII is run again whenever the
\* opened product of its two random masks is zero: the preprocessing that
\* the online phase gets never holds masks whose opened product was zero.
C25_MaskProductNonZero ==
    (call.op = "greater_thanII" /\ call.stage \in {"preprocessed", "opened", "done"})
    => call.mask_OK # 0


\* a comparison has drawn a random element or exchanged shares
CmpStarted ==
    \/ call.exchanges > 0
    \/ call.stage \notin {"preprocessing", "bits", "failed"}
    \/ call.op = "greater_than" /\ call.int_bits # <<>>
    \/ call.op = "greater_thanII" /\ call.r_bits # <<>>

\* C26: the comparisons check the size of their fields before any random
\* draw and any exchange of shares: greater_thanII that the modulus is above
\* 2^(l+2) + 2^(l+k) and that of the compact field above 3 + 3l, greater_than
\* that 2^(l+1) + 2^t is below the modulus.  A call that has drawn or
\* exchanged anything has fields that large, and a call that failed its
\* check has drawn nothing and exchanged nothing.
C26_FieldSizeCheckedFirst ==
    /\ (call.op = "greater_than" /\ CmpStarted)
         => Pow2(BitLength + 1) + Pow2(TopBit) < call.field
    /\ (call.op = "greater_thanII" /\ CmpStarted)
         => /\ call.field > Pow2(BitLengthII + 2) + Pow2(BitLengthII + SecurityBits)
            /\ call.smallField > 3 + 3 * BitLengthII
    /\ (call.op \in {"greater_than", "greater_thanII"} /\ call.stage = "failed")
         => ~CmpStarted

\* C26 witness: greater_thanII called with a compact field of at most
\* 3 + 3l elements has failed.
C26_Witness ==
    /\ call.op = "greater_thanII" /\ call.stage = "failed"
    /\ call.field = ZpII /\ call.smallField <= 3 + 3 * BitLengthII

C26_WitnessGreaterThan ==
    /\ call.op = "greater_than" /\ call.stage = "failed"
    /\ call.field < Zp


\* C27: add, sub and xor_bit are local.  In a program of add, sub and
\* xor_bit alone nothing is sent, the table of expected shares stays empty
\* and the program counter stays where it was; when an open follows them,
\* the strings and the table entries are those of the open, under the tag
\* of the first counted call of the program, and the counter has advanced
\* once.
C27_PurelyLocal ==
    \A i \in Players :
        /\ prog = ProgArith =>
             /\ rt[i].sent = {} /\ rt[i].exch = {} /\ DOMAIN rt[i].incoming = {}
             /\ rt[i].pclog = {}
             /\ rt[i].pc = <<0>>
        /\ prog = ProgLocal =>
             /\ \A m \in rt[i].sent : m.lbl = <<"r">> /\ m.pc = <<1, 0>>
             /\ \A e \in rt[i].exch : e.pc = <<1, 0>>
             /\ \A key \in DOMAIN rt[i].incoming : key[1] = <<1, 0>>
             /\ \A e \in rt[i].pclog : e.op \in {"open", "_recombine"}
             /\ rt[i].pc = (IF ip[i] = 1 THEN <<1>> ELSE <<0>>)
             /\ ip[i] = 1 => Resolved(i, "z") /\ Value(i, "z") = GF256(GF256Add(3, 5))

\* C27 witness: player 1 has made the three local calls and the open, has
\* sent its share for the open and has all four results.
C27_Witness ==
    /\ prog = ProgLocal
    /\ Resolved(1, "x") /\ Resolved(1, "y") /\ Resolved(1, "z") /\ Resolved(1, "r")
    /\ Value(1, "r") = FE(FSub(FAdd(secret["a"], secret["b"]), Modulus - 1))
    /\ rt[1].sent # {}

C27_WitnessArith ==
    /\ prog = ProgArith
    /\ \A i \in Players : Resolved(i, "x") /\ Resolved(i, "y") /\ Resolved(i, "r")


MulStmts == {k \in 1..Len(prog.stmts) : prog.stmts[k].op = "mul"}

\* the shares of player j's product that player i holds for the mul that
\* assigns v: what j sent to i and i has received, or what i kept
MulShares(i, j, v) ==
    IF j = i
    THEN {m.value : m \in {e \in rt[i].kept : e.lbl = <<v>> /\ e.pc = ExpectedTag(<<v>>)}}
    ELSE {m.value : m \in {e \in rt[j].sent :
                              /\ e.lbl = <<v>> /\ e.to = i /\ e.pc = ExpectedTag(<<v>>)
                              /\ <<e.pc, j>> \in rt[i].rcvd}}

MulShare(i, j, v) == CHOOSE value \in MulShares(i, j, v) : TRUE

\* C28: in mul a player sends nothing before both operands have resolved;
\* once they have, it has sent one string to each of the n-1 other players
\* and none to itself, all under one tag, the values being Shamir shares of
\* its local product; and its result, when it has one, is the recombination
\* of the shares of players 1..2t+1 exchanged under that tag.
C28_MulExchange ==
    \A i \in Players : \A k \in MulStmts :
        LET s == prog.stmts[k]
            M == SentFor(i, s.out)
        IN  /\ \A m \in M : m.to # i /\ m.pc = ExpectedTag(<<s.out>>)
            /\ rt[i].dup = {}
            /\ IF ip[i] = 1 /\ OperandReady(i, s.x) /\ OperandReady(i, s.y)
               THEN /\ Cardinality(M) = N - 1
                    /\ {m.to : m \in M} = Players \ {i}
                    /\ \A m1, m2 \in M : m1.to < m2.to =>
                         shamir_recombine(<<<<m1.to, m1.value>>, <<m2.to, m2.value>>>>)
                           = FMul(OperandValue(i, s.x), OperandValue(i, s.y))
               ELSE M = {}
            /\ Resolved(i, s.out) =>
                 /\ \A j \in 1..(2 * Threshold + 1) :
                      Cardinality(MulShares(i, j, s.out)) = 1
                 /\ Value(i, s.out) =
                      FE(shamir_recombine([j \in 1..(2 * Threshold + 1) |->
                                             <<j, MulShare(i, j, s.out)>>]))

\* C28 witness: player 1 has its product; every player has sent its two
\* strings.
C28_Witness ==
    /\ prog = ProgMul
    /\ Resolved(1, "x") /\ Value(1, "x").t = "fe"
    /\ \A i \in Players : Cardinality(SentFor(i, "x")) = N - 1
    /\ ~Resolved(3, "x")


\* C30: after shutdown the channel to every peer that is established is
\* closed, the channel to a peer that is not yet is closed when it is, and
\* none of the close requests that shutdown registered on the entries of
\* protocols has ended in an error.
C30_ShutdownCloses ==
    \A i \in Players : call.shut[i] =>
        /\ \A j \in Players \ {i} :
             /\ call.fired[i][j] > 0 <=> call.closed[i][j]
             /\ call.fired[i][j] = 0 <=> call.closing[i][j]
        /\ \A j \in Players : <<i, j>> \notin call.closeerr

\* what the code does: the channels to the peers are closed so, and the
\* close request on the player's own entry of protocols, which holds the
\* string "Unused", has ended in an error
C30_OwnEntryFails ==
    \A i \in Players : call.shut[i] =>
        /\ \A j \in Players \ {i} :
             /\ call.fired[i][j] > 0 <=> call.closed[i][j]
             /\ call.fired[i][j] = 0 <=> call.closing[i][j]
        /\ \A j \in Players : <<i, j>> \in call.closeerr <=> j = i

\* a shutdown with one channel closed and the close request of another
\* waiting for its channel
C30_CloseWaits ==
    \E i \in Players : \E j, k \in Players \ {i} :
        call.shut[i] /\ call.closed[i][j] /\ call.closing[i][k]


\* the variables that the program of a player gives to wait_for
WaitedFor == {prog.stmts[k].out : k \in 1..Len(prog.stmts)}

\* C31: wait_for shuts the runtime of a player down only after every
\* variable given to it has resolved, and does so once they all have: at
\* the end of every handler the player has shut down exactly if its program
\* has made its calls and all the variables have resolved
C31_ShutdownWhenResolved ==
    \A i \in Players :
        call.shut[i] <=> (ip[i] = 1 /\ \A v \in WaitedFor : Resolved(i, v))

\* a player has shut down with all its variables resolved while another,
\* one of whose two variables has resolved, has not
C31_Witness ==
    \E i, j \in Players :
        /\ call.shut[i] /\ \A v \in WaitedFor : Resolved(i, v)
        /\ ~call.shut[j] /\ ip[j] = 1
        /\ \E v, w \in WaitedFor : Resolved(j, v) /\ ~Resolved(j, w)


\* the pair that arrived from player i passes the check of the receiver
PairPasses(i) ==
    call.codes[i].v = (load_keys[call.id].alpha * call.values[i].v
                       + load_keys[call.id].keys[i]) % Modulus

RECURSIVE SumOfValues(_)
SumOfValues(i) ==
    IF i = 0 THEN 0 ELSE (SumOfValues(i - 1) + call.values[i].v) % Modulus

C32_WitnessSum ==
    /\ call.op = "open" /\ call.stage = "done"
    /\ \A i \in BedozaPlayers : PairPasses(i)
    /\ call.result.t = "fe" /\ call.result.v # 0


\* C33: within one player's run no two sends to the same peer carry the
\* same program-counter tag and no two PRSS draws use the same key, so a key
\* (program counter, peer) of the table of expected shares is never used
\* for two values: no tag was used again for a peer, the strings sent to one
\* peer differ in their tags, each key was waited on through one Share, and
\* the keys of the draws differ.  The calls are nested directly (mul and
\* open in prss_share_random) and made from a resumed continuation (the
\* draw repeated by finish, _shamir_share in the callback of mul).
C33_TagsAndKeysUnique ==
    \A i \in Players :
        /\ rt[i].dup = {}
        /\ \A m1, m2 \in rt[i].sent : (m1.to = m2.to /\ m1.pc = m2.pc) => m1 = m2
        /\ \A e1, e2 \in rt[i].exch : (e1.peer = e2.peer /\ e1.pc = e2.pc) => e1.d = e2.d
        /\ \A m, n \in 1..Len(rt[i].prss_keys) :
             m # n => rt[i].prss_keys[m] # rt[i].prss_keys[n]

\* a player has drawn twice, the second time from the continuation finish,
\* and has sent one peer four strings: for the mul and the open of each draw
C33_Witness ==
    \E i \in Players : \E j \in Players \ {i} :
        /\ prog = ProgPrssRandomBinary
        /\ Len(rt[i].prss_keys) = 2
        /\ Cardinality({m \in rt[i].sent : m.to = j}) = 4


\* the Deferreds of the value a program variable holds: of a Share, or of
\* each Share of a list
DeferredsOf(value) ==
    IF value.t = "dref" THEN {value.v}
    ELSE IF value.t = "dlist" THEN {value.v[k] : k \in DOMAIN value.v}
    ELSE {}

\* every Share a call of the program returned to player i has its final
\* value
AllResolved(i) ==
    /\ ip[i] = 1
    /\ \A k \in 1..Len(prog.stmts) :
         /\ DeferredsOf(env[i][prog.stmts[k].out]) # {}
         /\ \A d \in DeferredsOf(env[i][prog.stmts[k].out]) :
              /\ rt[i].ds[d].called /\ rt[i].ds[d].paused = 0 /\ rt[i].ds[d].cbs = <<>>
              /\ rt[i].ds[d].result.t \in {"fe", "gf256"}

Raised(i) == {e \in rt[i].pclog : e.op = "_recombine" /\ e.before = <<1, 0>>}

\* C35: if the body of a counter-advancing operation raises, its frame is
\* still popped: after the call the counter is the counter before it with
\* its last element one higher, and later operations get the tags they get
\* after a normal return.  The _recombine of the first open raises; the
\* counter of the program is then as after any open, and the second open
\* sends under the tag of a second statement and opens its secret.
C35_FramePoppedOnRaise ==
    \A i \in Players :
        /\ \A e \in rt[i].pclog : e.after = Bump(e.before)
        /\ \A e \in rt[i].cblog : e.after = e.before
        /\ \A e \in Raised(i) : e.last = e.entry /\ "AssertionError" \in rt[i].err
        /\ ip[i] = 1 => rt[i].pc = <<Len(prog.stmts)>>
        /\ \A m \in SentFor(i, "x") : m.pc = ExpectedTag(<<"x">>)
        /\ Resolved(i, "x") => Value(i, "x") = FE(secret["b"])

\* the _recombine of the first open of a player has raised, during the call
\* of open, and its second open has yielded the secret
C35_Witness ==
    \E i \in Players :
        /\ prog = ProgRaiseGiven
        /\ Raised(i) # {}
        /\ Resolved(i, "r") /\ Value(i, "r") = FailV
        /\ Resolved(i, "x") /\ Value(i, "x") = FE(secret["b"])

\* the same with the _recombine raising in a callback that the reactor runs
C35_WitnessLate ==
    \E i \in Players :
        /\ prog = ProgRaiseLate
        /\ Raised(i) # {}
        /\ Resolved(i, "x") /\ Value(i, "x") = FE(secret["b"])


\* C36: _diamond applied to the bit pairs (x, X) and (y, Y) yields (0, Y)
\* when y = 0 and (x, X) when y = 1, for all bits x, X, y, Y: so are the
\* pairs that the first round has combined from the pairs given.
C36_DiamondTable ==
    (call.op = "_finish_greater_than" /\ call.rounds = 0) =>
        \A k \in 1..Len(call.tmp) :
            call.tmp[k] = IF call.given[2 * k][1] = 0
                          THEN <<0, call.given[2 * k][2]>>
                          ELSE call.given[2 * k - 1]

\* the first two pairs given have been combined: y = 1 has kept (x, X),
\* which is not (0, Y)
C36_Witness ==
    /\ call.op = "_finish_greater_than" /\ call.rounds = 0
    /\ Len(call.tmp) = 1
    /\ call.given[2][1] = 1
    /\ call.tmp[1] = call.given[1] /\ call.tmp[1] # <<0, call.given[2][2]>>

\* y = 0 has yielded (0, Y), which is not (x, X)
C36_WitnessZero ==
    /\ call.op = "_finish_greater_than" /\ call.rounds = 0
    /\ Len(call.tmp) = 1
    /\ call.given[2][1] = 0
    /\ call.tmp[1] = <<0, call.given[2][2]>> /\ call.tmp[1] # call.given[1]

RECURSIVE FoldDiamond(_, _, _)
\* the diamond operator folded from left to right over vec[lo..hi]
FoldDiamond(vec, lo, hi) ==
    IF hi <= lo THEN vec[lo] ELSE _diamond(FoldDiamond(vec, lo, hi - 1), vec[hi])

\* the least r with 2^r >= n
CeilLog2(n) == CHOOSE r \in 0..n : Pow2(r) >= n /\ \A q \in 0..(r - 1) : Pow2(q) < n

\* the smaller of two numbers
Min(a, b) == IF a < b THEN a ELSE b

\* C37: the reduction of _finish_greater_than combines only neighbours, the
\* earlier one as left operand, and keeps a left-over element last, so the
\* order of the elements is never changed: in round r every element of tmp
\* is the left-to-right fold of a block of 2^(r+1) neighbours of the vector
\* given and every element of vec that of a block of 2^r (the last block
\* may be shorter), the blocks following each other in the order of the
\* vector; the final pair is the left-to-right fold of the whole vector,
\* reached in ceil(log2(number of elements)) rounds.
C37_ReductionIsFold ==
    call.op = "_finish_greater_than" =>
        LET n    == Len(call.given)
            size == Pow2(call.rounds)
            done == 2 * Len(call.tmp)
        IN  /\ \A k \in 1..Len(call.tmp) :
                 call.tmp[k] = FoldDiamond(call.given, (k - 1) * 2 * size + 1,
                                           Min(k * 2 * size, n))
            /\ \A k \in 1..Len(call.vec) :
                 /\ (done + k - 1) * size + 1 <= n
                 /\ call.vec[k] = FoldDiamond(call.given, (done + k - 1) * size + 1,
                                              Min((done + k) * size, n))
            /\ call.stage = "done" =>
                 /\ call.vec = <<FoldDiamond(call.given, 1, n)>>
                 /\ call.rounds = CeilLog2(n)

\* a vector of five elements has been reduced in three rounds, its
\* left-over element kept last in two of them, to a pair that is not the
\* fold from right to left
C37_Witness ==
    /\ call.op = "_finish_greater_than" /\ call.stage = "done"
    /\ Len(call.given) = 5 /\ call.rounds = 3
    /\ call.vec[1] # _diamond(call.given[1],
                       _diamond(call.given[2],
                         _diamond(call.given[3],
                           _diamond(call.given[5], call.given[4]))))

\* C38, as the code has it: each combine step of the reduction costs
\* exactly two multiplications, each an exchange among the n players:
\* step k calls mul on the top elements of its operands and on the top
\* element of the right operand and the exclusive or of the bottom elements
C38_TwoMultiplications ==
    call.op = "_finish_greater_than" =>
        /\ Len(call.muls) = 2 * call.steps
        /\ \A k \in 1..call.steps :
             /\ call.muls[2 * k - 1][2] = call.muls[2 * k][1]
             /\ call.muls[2 * k - 1][1] * call.muls[2 * k - 1][2] \in {0, 1}

\* C38 as stated: each combine step of the diamond reduction costs exactly
\* one multiplication (one exchange among the n players)
C38_Original ==
    call.op = "_finish_greater_than" => Len(call.muls) = call.steps

\* a vector of five elements reduced in four combine steps and eight
\* multiplications
C38_Witness ==
    /\ call.op = "_finish_greater_than" /\ call.stage = "done"
    /\ call.steps = 4 /\ Len(call.muls) = 8


\* the exclusive or of the bits the players have drawn
RECURSIVE MaskOf(_, _)
MaskOf(bits, i) == IF i > Len(bits) THEN 0 ELSE (bits[i] + MaskOf(bits, i + 1)) % 2

\* C39: convert_bit_share returns, in the destination field, the bit that
\* the input holds in the source field, for every choice of the bits the
\* players draw: the value opened is the bit with the exclusive or of the
\* drawn bits XORed in, and the same bits are XORed back onto the opened
\* value in the destination field.
C39_ConvertKeepsBit ==
    call.op = "convert_bit_share" =>
        /\ call.stage \in {"masked", "opened", "done"} =>
             call.tmp = (call.share + MaskOf(call.bits, 1)) % 2
        /\ call.stage \in {"opened", "done"} => call.opened = call.tmp
        /\ call.stage = "done" =>
             /\ call.result = call.share
             /\ call.result = (call.opened + MaskOf(call.bits, 1)) % 2

\* the bit 1 converted from Zp with a mask of 1: the value opened was 0
C39_Witness ==
    /\ call.op = "convert_bit_share" /\ call.stage = "done"
    /\ call.src_field = "Zp" /\ call.share = 1
    /\ MaskOf(call.bits, 1) = 1 /\ call.opened = 0 /\ call.result = 1

\* the bit 0 converted from GF256 with two of the players drawing 1
C39_WitnessFromGF256 ==
    /\ call.op = "convert_bit_share" /\ call.stage = "done"
    /\ call.src_field = "GF256" /\ call.share = 0
    /\ call.bits[1] = 1 /\ call.bits[2] = 1 /\ call.result = 0


\* the tags of the strings player i has sent
TagsSent(i) == {m.pc : m \in rt[i].sent}

\* C40: in a binary prss_share_random draw all players reach the same
\* decision to draw again or not: the keys of the draws of two players
\* agree as far as both have drawn, no player draws again after a draw that
\* another player has taken its share from, and when nothing is left to
\* happen every player has its share, from draws with the same keys, has
\* sent strings with the same tags and has the same program counter.
C40_SameDecision ==
    prog = ProgPrssRandomBinary =>
    \A i, j \in Players :
        /\ \A n \in 1..Min(Len(rt[i].prss_keys), Len(rt[j].prss_keys)) :
             rt[i].prss_keys[n] = rt[j].prss_keys[n]
        /\ Resolved(i, "x") => Len(rt[j].prss_keys) <= Len(rt[i].prss_keys)
        /\ Quiescent =>
             /\ Resolved(i, "x") /\ Value(i, "x").t = "fe"
             /\ rt[i].prss_keys = rt[j].prss_keys
             /\ TagsSent(i) = TagsSent(j)
             /\ rt[i].pc = rt[j].pc

\* the players have drawn twice, under the same two keys, and have their
\* shares of the second draw
C40_Witness ==
    /\ prog = ProgPrssRandomBinary
    /\ Quiescent
    /\ \A i \in Players : Len(rt[i].prss_keys) = 2 /\ Resolved(i, "x")
    /\ rt[1].prss_keys = rt[MaxPlayers].prss_keys

\* player 1 has drawn a second time while another player has not yet opened
\* the square of the first draw
C40_WitnessAhead ==
    /\ prog = ProgPrssRandomBinary
    /\ Len(rt[1].prss_keys) = 2
    /\ \E j \in Players : Len(rt[j].prss_keys) = 1 /\ ~Resolved(j, "x")

=============================================================================
